---- MODULE Spec2Model ----
(***************************************************************************)
(* Model of the plugin "execute in place" orchestration of salsa           *)
(* (src/src/plugins/plugin_executeInPlace.ts) together with the two thin   *)
(* wrappers it awaits, feed_create (src/src/feeds/index.ts) and plugin_run *)
(* (src/src/plugins/index.ts).                                             *)
(*                                                                         *)
(* Strings are sequences of lexemes.  The characters that the code looks   *)
(* at ("/", "_" and the decimal digits) are lexemes of their own; every    *)
(* other lexeme ("home", "pl-dircopy", ...) is an opaque run of characters *)
(* that contains none of them.  split, join, endsWith and the rendering of *)
(* numbers in template literals are computed on these sequences.           *)
(*                                                                         *)
(* JavaScript values are records of one shape, [tag, num, str], so that    *)
(* numbers, strings, undefined and null can be compared with each other.   *)
(***************************************************************************)
EXTENDS Integers, Sequences, FiniteSets, TLC

\* ------------------------------------------------------------------------
\* Bounds
\* ------------------------------------------------------------------------

\* how many distinct numeric ids the remote system and the paths may use
NumIds == 3

\* the ids themselves: 9, 10, 11, ... (one- and two-digit renderings)
Ids == 9 .. (8 + NumIds)

\* the invocations of plugin_executeInPlace a behaviour may contain
Procs == {1, 2}

\* ------------------------------------------------------------------------
\* JavaScript values
\* ------------------------------------------------------------------------

Undef == [tag |-> "undefined", num |-> 0, str |-> <<>>]

Null == [tag |-> "null", num |-> 0, str |-> <<>>]

Num(n) == [tag |-> "number", num |-> n, str |-> <<>>]

Str(s) == [tag |-> "string", num |-> 0, str |-> s]

\* JavaScript truthiness of a value (undefined, null, 0 and "" are falsy)
Truthy(v) ==
    CASE v.tag = "number" -> v.num # 0
      [] v.tag = "string" -> v.str # <<>>
      [] OTHER -> FALSE

DigitChars == <<"0", "1", "2", "3", "4", "5", "6", "7", "8", "9">>

IsDigit(c) == \E d \in 1..10 : DigitChars[d] = c

DigitValue(c) == (CHOOSE d \in 1..10 : DigitChars[d] = c) - 1

\* decimal rendering of a non-negative integer, as `${n}` produces it
RECURSIVE Digits(_)
Digits(n) ==
    IF n < 10 THEN <<DigitChars[n + 1]>>
    ELSE Digits(n \div 10) \o <<DigitChars[(n % 10) + 1]>>

\* `${v}` inside a template literal
TemplateString(v) ==
    CASE v.tag = "number" -> Digits(v.num)
      [] v.tag = "string" -> v.str
      [] v.tag = "null" -> <<"null">>
      [] OTHER -> <<"undefined">>

\* ------------------------------------------------------------------------
\* String operations used by the orchestrator
\* ------------------------------------------------------------------------

\* String.prototype.split('/'): the maximal runs between the slashes
RECURSIVE SplitFrom(_, _, _)
SplitFrom(s, k, cur) ==
    IF k > Len(s) THEN <<cur>>
    ELSE IF s[k] = "/" THEN <<cur>> \o SplitFrom(s, k + 1, <<>>)
    ELSE SplitFrom(s, k + 1, Append(cur, s[k]))

Split(s) == SplitFrom(s, 1, <<>>)

\* Array.prototype.join('/')
RECURSIVE Join(_)
Join(parts) ==
    IF Len(parts) = 0 THEN <<>>
    ELSE IF Len(parts) = 1 THEN parts[1]
    ELSE parts[1] \o <<"/">> \o Join(Tail(parts))

\* String.prototype.endsWith
EndsWith(s, suffix) ==
    /\ Len(suffix) <= Len(s)
    /\ SubSeq(s, Len(s) - Len(suffix) + 1, Len(s)) = suffix

\* cwd.split('/')[2] rendered in a template literal: an index past the end
\* of the array reads undefined
UserSegment(cwd) ==
    LET parts == Split(cwd)
    IN  IF Len(parts) >= 3 THEN parts[3] ELSE <<"undefined">>

\* path.basename(p): the last segment, trailing slashes ignored
RECURSIVE StripTrailingSlashes(_)
StripTrailingSlashes(s) ==
    IF Len(s) > 0 /\ s[Len(s)] = "/"
    THEN StripTrailingSlashes(SubSeq(s, 1, Len(s) - 1))
    ELSE s

Basename(p) ==
    LET parts == Split(StripTrailingSlashes(p))
    IN  parts[Len(parts)]

\* ------------------------------------------------------------------------
\* Dictionaries: insertion-ordered sequences of [k, v] entries, unique keys
\* ------------------------------------------------------------------------

EmptyDict == <<>>

DictKeys(d) == {d[j].k : j \in 1..Len(d)}

DictHas(d, key) == key \in DictKeys(d)

\* d[key]; reading an absent key gives undefined
DictGet(d, key) ==
    IF DictHas(d, key)
    THEN d[CHOOSE j \in 1..Len(d) : d[j].k = key].v
    ELSE Undef

\* d[key] = val: an existing key keeps its position, a new key is appended
DictSet(d, key, val) ==
    IF DictHas(d, key)
    THEN [j \in 1..Len(d) |-> IF d[j].k = key THEN [k |-> key, v |-> val] ELSE d[j]]
    ELSE Append(d, [k |-> key, v |-> val])

\* JSON.stringify of a value that is a number, a string or null
JsonValue(v) ==
    CASE v.tag = "number" -> Digits(v.num)
      [] v.tag = "string" -> <<"\"">> \o v.str \o <<"\"">>
      [] OTHER -> <<"null">>

\* the members of JSON.stringify(d): keys whose value is undefined are left out
RECURSIVE JsonMembers(_)
JsonMembers(d) ==
    IF Len(d) = 0 THEN <<>>
    ELSE LET rest == JsonMembers(Tail(d))
             this == <<"\"", d[1].k, "\"", ":">> \o JsonValue(d[1].v)
         IN  IF d[1].v.tag = "undefined" THEN rest
             ELSE IF rest = <<>> THEN this
             ELSE this \o <<",">> \o rest

JsonStringify(d) == <<"{">> \o JsonMembers(d) \o <<"}">>

\* ------------------------------------------------------------------------
\* Path helpers of the backend client library (imported, not part of salsa)
\* ------------------------------------------------------------------------

AllDigits(s) == Len(s) > 0 /\ \A j \in 1..Len(s) : IsDigit(s[j])

\* the integer a run of decimal digits denotes (leading zeros allowed)
RECURSIVE ParseInt(_)
ParseInt(s) ==
    IF Len(s) = 0 THEN 0
    ELSE 10 * ParseInt(SubSeq(s, 1, Len(s) - 1)) + DigitValue(s[Len(s)])

\* a segment of the form <name>_<digits>, <name> not empty
IsInstanceSegment(seg) ==
    \E j \in 2..(Len(seg) - 1) :
        seg[j] = "_" /\ AllDigits(SubSeq(seg, j + 1, Len(seg)))

\* the number after the last underscore of such a segment
SegmentId(seg) ==
    LET j == CHOOSE j \in 2..(Len(seg) - 1) :
                 seg[j] = "_" /\ AllDigits(SubSeq(seg, j + 1, Len(seg)))
    IN  ParseInt(SubSeq(seg, j + 1, Len(seg)))

\* a segment of the form feed_<digits>
IsFeedSegment(seg) ==
    Len(seg) >= 3 /\ seg[1] = "feed" /\ seg[2] = "_" /\ AllDigits(SubSeq(seg, 3, Len(seg)))

\* path_isInFeed(cwd): cwd contains .../feeds/feed_<n>/...
path_isInFeed(cwd) ==
    LET parts == Split(cwd)
    IN  \E j \in 1..(Len(parts) - 1) :
            parts[j] = <<"feeds">> /\ IsFeedSegment(parts[j + 1])

\* path_extractPluginInstanceID(cwd): the values the call may return, null
\* or the number of a <name>_<digits> segment of cwd
path_extractPluginInstanceID(cwd) ==
    LET parts == Split(cwd)
    IN  {Null} \cup {Num(SegmentId(parts[j])) :
                        j \in {n \in 1..Len(parts) : IsInstanceSegment(parts[n])}}

\* path_extractFeedID(cwd): the values the call may return, null or the
\* number of a feed_<digits> segment of cwd
path_extractFeedID(cwd) ==
    LET parts == Split(cwd)
    IN  {Null} \cup {Num(SegmentId(parts[j])) :
                        j \in {n \in 1..Len(parts) : IsFeedSegment(parts[n])}}

\* String.prototype.split on an arbitrary one-lexeme separator
RECURSIVE SplitOn(_, _, _, _)
SplitOn(s, sep, k, cur) ==
    IF k > Len(s) THEN <<cur>>
    ELSE IF s[k] = sep THEN <<cur>> \o SplitOn(s, sep, k + 1, <<>>)
    ELSE SplitOn(s, sep, k + 1, Append(cur, s[k]))

\* a listing entry pl-dircopy-v<a>.<b>.<c> (prefix match on the name)
IsDircopyEntry(e) == Len(e) >= 1 /\ e[1] = "pl-dircopy"

\* the version numbers of an entry <name>-v<a>.<b>.<c>; none when unversioned
VersionOf(e) ==
    IF Len(e) >= 3 /\ e[2] = "-v"
    THEN LET fields == SplitOn(SubSeq(e, 3, Len(e)), ".", 1, <<>>)
         IN  [j \in 1..Len(fields) |-> ParseInt(fields[j])]
    ELSE <<>>

\* semantic-version order: v is strictly older than w
RECURSIVE VersionLess(_, _)
VersionLess(v, w) ==
    IF Len(w) = 0 THEN FALSE
    ELSE IF Len(v) = 0 THEN TRUE
    ELSE IF v[1] # w[1] THEN v[1] < w[1]
    ELSE VersionLess(Tail(v), Tail(w))

\* path_findLatestDircopy(binListing): the entry of the directory-copy
\* plugin with the highest version, null when the listing has none
path_findLatestDircopy(binListing) ==
    LET cands == {j \in 1..Len(binListing) : IsDircopyEntry(binListing[j])}
    IN  IF cands = {} THEN Null
        ELSE Str(binListing[CHOOSE j \in cands :
                     \A l \in cands :
                         ~VersionLess(VersionOf(binListing[j]), VersionOf(binListing[l]))])

\* ------------------------------------------------------------------------
\* The two wrappers the orchestrator awaits
\* ------------------------------------------------------------------------

\* Array.prototype.join(',')
RECURSIVE JoinComma(_)
JoinComma(parts) ==
    IF Len(parts) = 0 THEN <<>>
    ELSE IF Len(parts) = 1 THEN parts[1]
    ELSE parts[1] \o <<",">> \o JoinComma(Tail(parts))

\* faulty variant of feed_create: only the first directory is passed on
feed_create_FirstDirOnly(dirs, params) ==
    [fn |-> "createFromDirs", dirs |-> dirs,
     dirsArg |-> IF Len(dirs) = 0 THEN <<>> ELSE dirs[1],
     searchable |-> <<>>, params |-> params, wire |-> <<>>]

\* feed_create(dirs, params): the request handed to ChRISFeed.createFromDirs
feed_create(dirs, params) ==
    [fn |-> "createFromDirs", dirs |-> dirs, dirsArg |-> JoinComma(dirs),
     searchable |-> <<>>, params |-> params, wire |-> <<>>]

\* plugin_run(searchable, parameters): the request handed to
\* ChRISPlugin.plugin_run; the parameters travel as JSON text
plugin_run(searchable, parameters) ==
    [fn |-> "plugin_run", dirs |-> <<>>, dirsArg |-> <<>>,
     searchable |-> searchable, params |-> parameters,
     wire |-> JsonStringify(parameters)]

\* ------------------------------------------------------------------------
\* Responses of the remote system
\* ------------------------------------------------------------------------

IdValues == {Num(n) : n \in Ids} \cup {Undef}

\* what awaiting feed_create yields: a rejection, null, or a record whose
\* id, pluginInstance, pluginInstance.data and pluginInstance.data.id may
\* each be missing
FeedResponses ==
    {[kind |-> k, id |-> Undef, pluginInstance |-> "absent", instId |-> Undef] :
        k \in {"throw", "null"}}
    \cup {[kind |-> "record", id |-> v, pluginInstance |-> p, instId |-> Undef] :
        v \in IdValues, p \in {"absent", "nodata"}}
    \cup {[kind |-> "record", id |-> v, pluginInstance |-> "present", instId |-> w] :
        v \in IdValues, w \in IdValues}

NoFeedResponse == [kind |-> "none", id |-> Undef, pluginInstance |-> "absent", instId |-> Undef]

ResolvedNames == {<<"pl-foo">>, <<"pl-bar">>}

\* what awaiting plugin_run yields: a rejection, null, or the record of the
\* scheduled plugin instance
RunResponses ==
    {[kind |-> k, id |-> Undef, plugin_name |-> Undef] : k \in {"throw", "null"}}
    \cup {[kind |-> "record", id |-> v, plugin_name |-> Str(n)] :
        v \in IdValues, n \in ResolvedNames}

NoRunResponse == [kind |-> "none", id |-> Undef, plugin_name |-> Undef]

\* ------------------------------------------------------------------------
\* plugin_executeInPlace
\* ------------------------------------------------------------------------

MsgNoDircopy == "pl-dircopy not found. Cannot create feeds."

MsgFeedFailed == "Failed to create feed"

MsgRunFailed == "Failed to run plugin"

MsgNoInstanceID == "Could not extract plugin instance ID from current directory path"

MsgNoFeedID == "Could not extract feed ID from current directory path"

NoLocals ==
    [isInFeed |-> FALSE, dircopyPlugin |-> Undef, feedTitle |-> <<>>,
     feedID |-> Undef, dircopyInstanceID |-> Undef, previousID |-> Undef,
     combinedParams |-> EmptyDict]

NoResult ==
    [kind |-> "none", hasFeedKeys |-> FALSE, feedID |-> Undef,
     dircopyInstanceID |-> Undef, pluginInstanceID |-> Undef,
     pluginName |-> Undef, outputPath |-> <<>>]

NullResult == [NoResult EXCEPT !.kind = "null"]

\* the promise of plugin_executeInPlace rejected: an exception reached the caller
Rejected == [NoResult EXCEPT !.kind = "rejected"]

\* `return null` after errorStack.stack_push('error', msg)
FailWith(l, msg) ==
    [pc |-> "FAIL", loc |-> l, msgs |-> <<msg>>, calls |-> <<>>, result |-> NullResult]

\* an exception leaves the async function
Throw(l) ==
    [pc |-> "THROWN", loc |-> l, msgs |-> <<>>, calls |-> <<>>, result |-> Rejected]

\* faulty variant of FeedTitle: the feed is always titled after the directory
FeedTitle_IgnoresFeedTitle(a) ==
    Basename(a.cwd)

\* (contextParams.feed_title as string) || path.basename(cwd)
FeedTitle(a) ==
    IF Truthy(a.contextParams.feed_title)
    THEN a.contextParams.feed_title.str
    ELSE Basename(a.cwd)

\* faulty variant of CombinedParams: the caller's keys are spread last, so
\* a previous_id or a title of the caller wins
CombinedParams_CallerWins(pluginParams, previousID, contextParams) ==
    LET base == IF DictHas(pluginParams, "previous_id") THEN pluginParams
                ELSE DictSet(pluginParams, "previous_id", previousID)
    IN  IF Truthy(contextParams.instance_title) /\ ~DictHas(pluginParams, "title")
        THEN DictSet(base, "title", contextParams.instance_title)
        ELSE base

\* faulty variant of CombinedParams: title is assigned whether or not an
\* instance title is given
CombinedParams_AlwaysTitle(pluginParams, previousID, contextParams) ==
    DictSet(DictSet(pluginParams, "previous_id", previousID),
            "title", contextParams.instance_title)

\* { ...pluginParams, previous_id }, then title when an instance title is given
CombinedParams(pluginParams, previousID, contextParams) ==
    LET base == DictSet(pluginParams, "previous_id", previousID)
    IN  IF Truthy(contextParams.instance_title)
        THEN DictSet(base, "title", contextParams.instance_title)
        ELSE base

\* faulty variant of NewFeedBegin: the result of path_findLatestDircopy is
\* not tested before the feed is created
NewFeedBegin_NoDircopyCheck(a) ==
    LET feedTitle == FeedTitle(a)
        dircopyPlugin == path_findLatestDircopy(a.binListing)
        l == [NoLocals EXCEPT !.feedTitle = feedTitle, !.dircopyPlugin = dircopyPlugin]
    IN  [pc |-> "AWAIT_FEED", loc |-> l, msgs |-> <<>>,
         calls |-> <<feed_create(<<a.cwd>>,
                       <<[k |-> "params", v |-> Str(<<"title:">> \o feedTitle)]>>)>>,
         result |-> NoResult]

\* new-feed path, up to the await of feed_create
NewFeedBegin(a) ==
    LET feedTitle == FeedTitle(a)
        dircopyPlugin == path_findLatestDircopy(a.binListing)
        l == [NoLocals EXCEPT !.feedTitle = feedTitle, !.dircopyPlugin = dircopyPlugin]
    IN  IF ~Truthy(dircopyPlugin)
        THEN FailWith(l, MsgNoDircopy)
        ELSE [pc |-> "AWAIT_FEED", loc |-> l, msgs |-> <<>>,
              calls |-> <<feed_create(<<a.cwd>>,
                            <<[k |-> "params", v |-> Str(<<"title:">> \o feedTitle)]>>)>>,
              result |-> NoResult]

\* faulty variant of NewFeedAfterCreate: the run is chained onto the feed id
\* instead of the id of the directory-copy instance
NewFeedAfterCreate_PreviousIsFeedID(a, l, feedResult) ==
    IF feedResult.kind = "throw" THEN Throw(l)
    ELSE IF feedResult.kind = "null" THEN FailWith(l, MsgFeedFailed)
    ELSE IF feedResult.pluginInstance # "present"
    THEN Throw([l EXCEPT !.feedID = feedResult.id])
    ELSE LET feedID == feedResult.id
             dircopyInstanceID == feedResult.instId
             combinedParams == CombinedParams(a.pluginParams, feedID, a.contextParams)
         IN  [pc |-> "AWAIT_RUN",
              loc |-> [l EXCEPT !.feedID = feedID,
                                !.dircopyInstanceID = dircopyInstanceID,
                                !.combinedParams = combinedParams],
              msgs |-> <<>>,
              calls |-> <<plugin_run(a.pluginName, combinedParams)>>,
              result |-> NoResult]

\* new-feed path, from the settling of feed_create to the await of plugin_run
NewFeedAfterCreate(a, l, feedResult) ==
    IF feedResult.kind = "throw" THEN Throw(l)
    ELSE IF feedResult.kind = "null" THEN FailWith(l, MsgFeedFailed)
    ELSE IF feedResult.pluginInstance # "present"
    THEN Throw([l EXCEPT !.feedID = feedResult.id])
    ELSE LET feedID == feedResult.id
             dircopyInstanceID == feedResult.instId
             combinedParams == CombinedParams(a.pluginParams, dircopyInstanceID, a.contextParams)
         IN  [pc |-> "AWAIT_RUN",
              loc |-> [l EXCEPT !.feedID = feedID,
                                !.dircopyInstanceID = dircopyInstanceID,
                                !.combinedParams = combinedParams],
              msgs |-> <<>>,
              calls |-> <<plugin_run(a.pluginName, combinedParams)>>,
              result |-> NoResult]

\* faulty variant of NewFeedOutputPath: the feed id and the id of the
\* directory-copy instance change places
NewFeedOutputPath_IdsSwapped(cwd, feedID, dircopyInstanceID, actualPluginName, pluginInstanceID) ==
    <<"/", "home", "/">> \o UserSegment(cwd)
        \o <<"/", "feeds", "/", "feed", "_">> \o TemplateString(dircopyInstanceID)
        \o <<"/", "pl-dircopy", "_">> \o TemplateString(feedID)
        \o <<"/">> \o TemplateString(actualPluginName)
        \o <<"_">> \o TemplateString(pluginInstanceID)
        \o <<"/", "data", "/">>

\* the output path predicted on the new-feed path
NewFeedOutputPath(cwd, feedID, dircopyInstanceID, actualPluginName, pluginInstanceID) ==
    <<"/", "home", "/">> \o UserSegment(cwd)
        \o <<"/", "feeds", "/", "feed", "_">> \o TemplateString(feedID)
        \o <<"/", "pl-dircopy", "_">> \o TemplateString(dircopyInstanceID)
        \o <<"/">> \o TemplateString(actualPluginName)
        \o <<"_">> \o TemplateString(pluginInstanceID)
        \o <<"/", "data", "/">>

\* faulty variant of NewFeedAfterRun: a failed run is compensated by a
\* request to delete the feed that was created
NewFeedAfterRun_Rollback(a, l, pluginResult) ==
    IF pluginResult.kind = "throw" THEN Throw(l)
    ELSE IF pluginResult.kind = "null"
    THEN [FailWith(l, MsgRunFailed) EXCEPT
             !.calls = <<[fn |-> "feed_delete", dirs |-> <<>>, dirsArg |-> <<>>,
                          searchable |-> <<>>, params |-> EmptyDict,
                          wire |-> TemplateString(l.feedID)]>>]
    ELSE LET pluginInstanceID == pluginResult.id
             actualPluginName == pluginResult.plugin_name
         IN  [pc |-> "SUCCESS", loc |-> l, msgs |-> <<>>, calls |-> <<>>,
              result |-> [kind |-> "result", hasFeedKeys |-> TRUE,
                          feedID |-> l.feedID,
                          dircopyInstanceID |-> l.dircopyInstanceID,
                          pluginInstanceID |-> pluginInstanceID,
                          pluginName |-> actualPluginName,
                          outputPath |-> NewFeedOutputPath(a.cwd, l.feedID,
                              l.dircopyInstanceID, actualPluginName, pluginInstanceID)]]

\* faulty variant of NewFeedAfterRun: when the run fails after the feed was
\* created, the message is pushed and the feed ids are handed back
NewFeedAfterRun_PartialResult(a, l, pluginResult) ==
    IF pluginResult.kind = "throw" THEN Throw(l)
    ELSE IF pluginResult.kind = "null"
    THEN [FailWith(l, MsgRunFailed) EXCEPT
             !.result = [NoResult EXCEPT
                         !.kind = "result", !.hasFeedKeys = TRUE,
                         !.feedID = l.feedID,
                         !.dircopyInstanceID = l.dircopyInstanceID]]
    ELSE LET pluginInstanceID == pluginResult.id
             actualPluginName == pluginResult.plugin_name
         IN  [pc |-> "SUCCESS", loc |-> l, msgs |-> <<>>, calls |-> <<>>,
              result |-> [kind |-> "result", hasFeedKeys |-> TRUE,
                          feedID |-> l.feedID,
                          dircopyInstanceID |-> l.dircopyInstanceID,
                          pluginInstanceID |-> pluginInstanceID,
                          pluginName |-> actualPluginName,
                          outputPath |-> NewFeedOutputPath(a.cwd, l.feedID,
                              l.dircopyInstanceID, actualPluginName, pluginInstanceID)]]

\* new-feed path, from the settling of plugin_run to the return
NewFeedAfterRun(a, l, pluginResult) ==
    IF pluginResult.kind = "throw" THEN Throw(l)
    ELSE IF pluginResult.kind = "null" THEN FailWith(l, MsgRunFailed)
    ELSE LET pluginInstanceID == pluginResult.id
             actualPluginName == pluginResult.plugin_name
         IN  [pc |-> "SUCCESS", loc |-> l, msgs |-> <<>>, calls |-> <<>>,
              result |-> [kind |-> "result", hasFeedKeys |-> TRUE,
                          feedID |-> l.feedID,
                          dircopyInstanceID |-> l.dircopyInstanceID,
                          pluginInstanceID |-> pluginInstanceID,
                          pluginName |-> actualPluginName,
                          outputPath |-> NewFeedOutputPath(a.cwd, l.feedID,
                              l.dircopyInstanceID, actualPluginName, pluginInstanceID)]]

\* faulty variant of ContinueFeedBegin: the feed id is tested before the
\* plugin instance id
ContinueFeedBegin_FeedIDFirst(a, previousID, feedID) ==
    LET l0 == [NoLocals EXCEPT !.isInFeed = TRUE, !.previousID = previousID]
    IN  IF feedID = Null
        THEN FailWith([l0 EXCEPT !.feedID = feedID], MsgNoFeedID)
        ELSE IF previousID = Null THEN FailWith(l0, MsgNoInstanceID)
        ELSE LET combinedParams == CombinedParams(a.pluginParams, previousID, a.contextParams)
             IN  [pc |-> "AWAIT_RUN",
                  loc |-> [l0 EXCEPT !.feedID = feedID, !.combinedParams = combinedParams],
                  msgs |-> <<>>,
                  calls |-> <<plugin_run(a.pluginName, combinedParams)>>,
                  result |-> NoResult]

\* existing-feed path, up to the await of plugin_run
ContinueFeedBegin(a, previousID, feedID) ==
    LET l0 == [NoLocals EXCEPT !.isInFeed = TRUE, !.previousID = previousID]
    IN  IF previousID = Null THEN FailWith(l0, MsgNoInstanceID)
        ELSE IF feedID = Null
        THEN FailWith([l0 EXCEPT !.feedID = feedID], MsgNoFeedID)
        ELSE LET combinedParams == CombinedParams(a.pluginParams, previousID, a.contextParams)
             IN  [pc |-> "AWAIT_RUN",
                  loc |-> [l0 EXCEPT !.feedID = feedID, !.combinedParams = combinedParams],
                  msgs |-> <<>>,
                  calls |-> <<plugin_run(a.pluginName, combinedParams)>>,
                  result |-> NoResult]

\* faulty variant of PreviousPluginPathFound: the path is walked up from its
\* end, so the last segment that ends in _<previousID> is taken
PreviousPluginPathFound_LastHit(cwd, previousID) ==
    LET pathParts == Split(cwd)
        suffix == <<"_">> \o TemplateString(previousID)
        hits == {j \in 1..Len(pathParts) : EndsWith(pathParts[j], suffix)}
    IN  IF hits = {} THEN <<>>
        ELSE LET last == CHOOSE j \in hits : \A n \in hits : j >= n
             IN  Join(SubSeq(pathParts, 1, last))

\* the prefix of cwd up to and including the first segment that ends in
\* _<previousID>; the empty string when no segment does
PreviousPluginPathFound(cwd, previousID) ==
    LET pathParts == Split(cwd)
        suffix == <<"_">> \o TemplateString(previousID)
        hits == {j \in 1..Len(pathParts) : EndsWith(pathParts[j], suffix)}
    IN  IF hits = {} THEN <<>>
        ELSE LET first == CHOOSE j \in hits : \A n \in hits : j <= n
             IN  Join(SubSeq(pathParts, 1, first))

\* previousPluginPath with its fallback
PreviousPluginPath(cwd, previousID, feedID) ==
    LET found == PreviousPluginPathFound(cwd, previousID)
    IN  IF found = <<>>
        THEN <<"/", "home", "/">> \o UserSegment(cwd)
                 \o <<"/", "feeds", "/", "feed", "_">> \o TemplateString(feedID)
                 \o <<"/", "previous", "_">> \o TemplateString(previousID)
        ELSE found

\* the output path predicted on the existing-feed path
ContinueFeedOutputPath(cwd, previousID, feedID, actualPluginName, pluginInstanceID) ==
    PreviousPluginPath(cwd, previousID, feedID)
        \o <<"/">> \o TemplateString(actualPluginName)
        \o <<"_">> \o TemplateString(pluginInstanceID)
        \o <<"/", "data", "/">>

\* faulty variant of ContinueFeedAfterRun: without the fallback of lines
\* 212-215, a cwd none of whose segments matches raises instead of returning
ContinueFeedAfterRun_NoFallback(a, l, pluginResult) ==
    IF pluginResult.kind = "throw" THEN Throw(l)
    ELSE IF pluginResult.kind = "null" THEN FailWith(l, MsgRunFailed)
    ELSE IF PreviousPluginPathFound(a.cwd, l.previousID) = <<>> THEN Throw(l)
    ELSE LET pluginInstanceID == pluginResult.id
             actualPluginName == pluginResult.plugin_name
         IN  [pc |-> "SUCCESS", loc |-> l, msgs |-> <<>>, calls |-> <<>>,
              result |-> [NoResult EXCEPT
                          !.kind = "result",
                          !.pluginInstanceID = pluginInstanceID,
                          !.pluginName = actualPluginName,
                          !.outputPath = ContinueFeedOutputPath(a.cwd, l.previousID,
                              l.feedID, actualPluginName, pluginInstanceID)]]

\* faulty variant of ContinueFeedAfterRun: the result of the existing-feed
\* path also carries the feed id and the previous instance as dircopy id
ContinueFeedAfterRun_WithFeedKeys(a, l, pluginResult) ==
    IF pluginResult.kind = "throw" THEN Throw(l)
    ELSE IF pluginResult.kind = "null" THEN FailWith(l, MsgRunFailed)
    ELSE LET pluginInstanceID == pluginResult.id
             actualPluginName == pluginResult.plugin_name
         IN  [pc |-> "SUCCESS", loc |-> l, msgs |-> <<>>, calls |-> <<>>,
              result |-> [NoResult EXCEPT
                          !.kind = "result",
                          !.hasFeedKeys = TRUE,
                          !.feedID = l.feedID,
                          !.dircopyInstanceID = l.previousID,
                          !.pluginInstanceID = pluginInstanceID,
                          !.pluginName = actualPluginName,
                          !.outputPath = ContinueFeedOutputPath(a.cwd, l.previousID,
                              l.feedID, actualPluginName, pluginInstanceID)]]

\* existing-feed path, from the settling of plugin_run to the return
ContinueFeedAfterRun(a, l, pluginResult) ==
    IF pluginResult.kind = "throw" THEN Throw(l)
    ELSE IF pluginResult.kind = "null" THEN FailWith(l, MsgRunFailed)
    ELSE LET pluginInstanceID == pluginResult.id
             actualPluginName == pluginResult.plugin_name
         IN  [pc |-> "SUCCESS", loc |-> l, msgs |-> <<>>, calls |-> <<>>,
              result |-> [NoResult EXCEPT
                          !.kind = "result",
                          !.pluginInstanceID = pluginInstanceID,
                          !.pluginName = actualPluginName,
                          !.outputPath = ContinueFeedOutputPath(a.cwd, l.previousID,
                              l.feedID, actualPluginName, pluginInstanceID)]]

\* faulty variant of plugin_executeInPlace: the listing is searched for the
\* directory-copy plugin before cwd is classified
plugin_executeInPlace_DircopyFirst(a, previousID, feedID) ==
    IF ~Truthy(path_findLatestDircopy(a.binListing))
    THEN FailWith([NoLocals EXCEPT !.isInFeed = path_isInFeed(a.cwd)], MsgNoDircopy)
    ELSE IF ~path_isInFeed(a.cwd)
    THEN NewFeedBegin(a)
    ELSE ContinueFeedBegin(a, previousID, feedID)

\* the synchronous part of a call of plugin_executeInPlace: classify cwd and
\* run the chosen protocol up to its first await or its early return
plugin_executeInPlace(a, previousID, feedID) ==
    IF ~path_isInFeed(a.cwd)
    THEN NewFeedBegin(a)
    ELSE ContinueFeedBegin(a, previousID, feedID)

\* faulty variant of AfterRun: a run that yields null is requested again
AfterRun_RetryRun(a, l, pluginResult) ==
    IF pluginResult.kind = "null"
    THEN [pc |-> "AWAIT_RUN", loc |-> l, msgs |-> <<>>,
          calls |-> <<plugin_run(a.pluginName, l.combinedParams)>>,
          result |-> NoResult]
    ELSE IF l.isInFeed
    THEN ContinueFeedAfterRun(a, l, pluginResult)
    ELSE NewFeedAfterRun(a, l, pluginResult)

\* the continuation after the awaited plugin_run settles
AfterRun(a, l, pluginResult) ==
    IF l.isInFeed
    THEN ContinueFeedAfterRun(a, l, pluginResult)
    ELSE NewFeedAfterRun(a, l, pluginResult)

\* ------------------------------------------------------------------------
\* The internal helpers plugin_executeNewFeed and plugin_executeContinueFeed
\* ------------------------------------------------------------------------

\* the constants of a helper's frame
HelperLocals ==
    [feedTitle |-> <<>>, dircopyPlugin |-> Undef, feedID |-> Undef,
     dircopyInstanceID |-> Undef, previousID |-> Undef, combinedParams |-> EmptyDict]

\* plugin_executeNewFeed, up to the await of feed_create
plugin_executeNewFeed(a) ==
    LET feedTitle == IF Truthy(a.contextParams.feed_title)
                     THEN a.contextParams.feed_title.str
                     ELSE Basename(a.cwd)
        dircopyPlugin == path_findLatestDircopy(a.binListing)
        l == [HelperLocals EXCEPT !.feedTitle = feedTitle, !.dircopyPlugin = dircopyPlugin]
    IN  IF ~Truthy(dircopyPlugin)
        THEN FailWith(l, "pl-dircopy not found. Cannot create feeds.")
        ELSE [pc |-> "AWAIT_FEED", loc |-> l, msgs |-> <<>>,
              calls |-> <<feed_create(<<a.cwd>>,
                            <<[k |-> "params", v |-> Str(<<"title:">> \o feedTitle)]>>)>>,
              result |-> NoResult]

\* plugin_executeNewFeed, from the settling of feed_create to the await of
\* plugin_run
ExecuteNewFeedAfterCreate(a, l, feedResult) ==
    IF feedResult.kind = "throw" THEN Throw(l)
    ELSE IF feedResult.kind = "null" THEN FailWith(l, "Failed to create feed")
    ELSE IF feedResult.pluginInstance # "present"
    THEN Throw([l EXCEPT !.feedID = feedResult.id])
    ELSE LET feedID == feedResult.id
             dircopyInstanceID == feedResult.instId
             spread == DictSet(a.pluginParams, "previous_id", dircopyInstanceID)
             combinedParams == IF Truthy(a.contextParams.instance_title)
                               THEN DictSet(spread, "title", a.contextParams.instance_title)
                               ELSE spread
         IN  [pc |-> "AWAIT_RUN",
              loc |-> [l EXCEPT !.feedID = feedID,
                                !.dircopyInstanceID = dircopyInstanceID,
                                !.combinedParams = combinedParams],
              msgs |-> <<>>,
              calls |-> <<plugin_run(a.pluginName, combinedParams)>>,
              result |-> NoResult]

\* plugin_executeNewFeed, from the settling of plugin_run to the return
ExecuteNewFeedAfterRun(a, l, pluginResult) ==
    IF pluginResult.kind = "throw" THEN Throw(l)
    ELSE IF pluginResult.kind = "null" THEN FailWith(l, "Failed to run plugin")
    ELSE LET pluginInstanceID == pluginResult.id
             actualPluginName == pluginResult.plugin_name
             username == UserSegment(a.cwd)
             outputPath ==
                 <<"/", "home", "/">> \o username
                     \o <<"/", "feeds", "/", "feed", "_">> \o TemplateString(l.feedID)
                     \o <<"/", "pl-dircopy", "_">> \o TemplateString(l.dircopyInstanceID)
                     \o <<"/">> \o TemplateString(actualPluginName)
                     \o <<"_">> \o TemplateString(pluginInstanceID)
                     \o <<"/", "data", "/">>
         IN  [pc |-> "SUCCESS", loc |-> l, msgs |-> <<>>, calls |-> <<>>,
              result |-> [kind |-> "result", hasFeedKeys |-> TRUE,
                          feedID |-> l.feedID,
                          dircopyInstanceID |-> l.dircopyInstanceID,
                          pluginInstanceID |-> pluginInstanceID,
                          pluginName |-> actualPluginName,
                          outputPath |-> outputPath]]

\* plugin_executeContinueFeed, up to the await of plugin_run; previousID and
\* feedID are what the two extractors answer for cwd
plugin_executeContinueFeed(a, previousID, feedID) ==
    LET l0 == [HelperLocals EXCEPT !.previousID = previousID]
    IN  IF previousID = Null
        THEN FailWith(l0,
                 "Could not extract plugin instance ID from current directory path")
        ELSE IF feedID = Null
        THEN FailWith([l0 EXCEPT !.feedID = feedID],
                 "Could not extract feed ID from current directory path")
        ELSE LET spread == DictSet(a.pluginParams, "previous_id", previousID)
                 combinedParams == IF Truthy(a.contextParams.instance_title)
                                   THEN DictSet(spread, "title", a.contextParams.instance_title)
                                   ELSE spread
             IN  [pc |-> "AWAIT_RUN",
                  loc |-> [l0 EXCEPT !.feedID = feedID, !.combinedParams = combinedParams],
                  msgs |-> <<>>,
                  calls |-> <<plugin_run(a.pluginName, combinedParams)>>,
                  result |-> NoResult]

\* the for loop of plugin_executeContinueFeed with its break, and the
\* fallback for a path that stayed empty
HelperPreviousPluginPath(cwd, previousID, feedID) ==
    LET pathParts == Split(cwd)
        hits == {j \in 1..Len(pathParts) :
                    EndsWith(pathParts[j], <<"_">> \o TemplateString(previousID))}
        previousPluginPath ==
            IF hits = {} THEN <<>>
            ELSE Join(SubSeq(pathParts, 1, CHOOSE j \in hits : \A n \in hits : j <= n))
    IN  IF previousPluginPath = <<>>
        THEN <<"/", "home", "/">> \o UserSegment(cwd)
                 \o <<"/", "feeds", "/", "feed", "_">> \o TemplateString(feedID)
                 \o <<"/", "previous", "_">> \o TemplateString(previousID)
        ELSE previousPluginPath

\* faulty variant of ExecuteContinueFeedAfterRun: the helper also hands back
\* the feed id
ExecuteContinueFeedAfterRun_WithFeedID(a, l, pluginResult) ==
    IF pluginResult.kind = "throw" THEN Throw(l)
    ELSE IF pluginResult.kind = "null" THEN FailWith(l, "Failed to run plugin")
    ELSE [pc |-> "SUCCESS", loc |-> l, msgs |-> <<>>, calls |-> <<>>,
          result |-> [NoResult EXCEPT
                      !.kind = "result",
                      !.feedID = l.feedID,
                      !.pluginInstanceID = pluginResult.id,
                      !.pluginName = pluginResult.plugin_name,
                      !.outputPath =
                          HelperPreviousPluginPath(a.cwd, l.previousID, l.feedID)
                              \o <<"/">> \o TemplateString(pluginResult.plugin_name)
                              \o <<"_">> \o TemplateString(pluginResult.id)
                              \o <<"/", "data", "/">>]]

\* plugin_executeContinueFeed, from the settling of plugin_run to the return
ExecuteContinueFeedAfterRun(a, l, pluginResult) ==
    IF pluginResult.kind = "throw" THEN Throw(l)
    ELSE IF pluginResult.kind = "null" THEN FailWith(l, "Failed to run plugin")
    ELSE LET pluginInstanceID == pluginResult.id
             actualPluginName == pluginResult.plugin_name
             outputPath ==
                 HelperPreviousPluginPath(a.cwd, l.previousID, l.feedID)
                     \o <<"/">> \o TemplateString(actualPluginName)
                     \o <<"_">> \o TemplateString(pluginInstanceID)
                     \o <<"/", "data", "/">>
         IN  [pc |-> "SUCCESS", loc |-> l, msgs |-> <<>>, calls |-> <<>>,
              result |-> [NoResult EXCEPT
                          !.kind = "result",
                          !.pluginInstanceID = pluginInstanceID,
                          !.pluginName = actualPluginName,
                          !.outputPath = outputPath]]

\* ------------------------------------------------------------------------
\* Inputs
\* ------------------------------------------------------------------------

\* /home/alice/uploads/study1: outside any feed
FreshCwd == <<"/", "home", "/", "alice", "/", "uploads", "/", "study", "1">>

\* /home/alice/uploads/: outside any feed, written with a trailing slash
TrailingSlashCwd == <<"/", "home", "/", "alice", "/", "uploads", "/">>

\* /tmp: outside any feed, fewer than three segments
ShortCwd == <<"/", "tmp">>

\* /home/alice/feeds/feed_<F>: inside a feed, above every plugin instance
FeedCwd(F) ==
    <<"/", "home", "/", "alice", "/", "feeds", "/", "feed", "_">> \o Digits(F)

\* /home/alice/feeds/feed_<F>/pl-dircopy_<digits>/data/
InstanceCwd(F, digits) ==
    FeedCwd(F) \o <<"/", "pl-dircopy", "_">> \o digits \o <<"/", "data", "/">>

\* feeds/feed_09: inside a feed, two segments, the id written with a leading zero
ShortFeedCwd == <<"feeds", "/", "feed", "_", "0", "9">>

Cwds ==
    {FreshCwd, TrailingSlashCwd, ShortCwd, ShortFeedCwd}
    \cup {FeedCwd(F) : F \in Ids}
    \cup {InstanceCwd(F, Digits(P)) : F \in Ids, P \in Ids}
    \cup {InstanceCwd(9, <<"0">> \o Digits(P)) : P \in Ids}

Dircopy211 == <<"pl-dircopy", "-v", "2", ".", "1", ".", "1">>

Dircopy100 == <<"pl-dircopy", "-v", "1", ".", "0", ".", "0">>

Simpledsapp == <<"pl-simpledsapp", "-v", "2", ".", "1", ".", "0">>

Listings ==
    {<<>>, <<Simpledsapp>>, <<Dircopy100, Simpledsapp, Dircopy211>>, <<Dircopy100>>}

ParamChoices ==
    {EmptyDict,
     <<[k |-> "outputdir", v |-> Str(<<"results">>)]>>,
     <<[k |-> "previous_id", v |-> Num(7)],
       [k |-> "title", v |-> Str(<<"mine">>)],
       [k |-> "threshold", v |-> Num(5)]>>}

ContextChoices ==
    [feed_title : {Undef, Str(<<>>), Str(<<"Brain">>)},
     instance_title : {Undef, Str(<<>>), Str(<<"Segment">>)}]

PluginNames == {<<"pl-foo", "-v", "1", ".", "0">>}

Inputs ==
    [pluginName : PluginNames, pluginParams : ParamChoices,
     contextParams : ContextChoices, cwd : Cwds, binListing : Listings]

NoArgs ==
    [pluginName |-> <<>>, pluginParams |-> EmptyDict,
     contextParams |-> [feed_title |-> Undef, instance_title |-> Undef],
     cwd |-> <<>>, binListing |-> <<>>]

NoHelpers == [previousID |-> Undef, feedID |-> Undef]

\* ------------------------------------------------------------------------
\* pluginMeta_readmeContentFetch
\* ------------------------------------------------------------------------

RepoUrls == {<<"http://example.com/repo">>, <<"http://example.com/other">>}

\* the four places tried, in the order of the array literal
ReadmeUrls(repoUrl) ==
    <<repoUrl \o <<"/", "raw", "/", "master", "/", "README", ".", "md">>,
      repoUrl \o <<"/", "raw", "/", "master", "/", "README", ".", "rst">>,
      repoUrl \o <<"/", "raw", "/", "main", "/", "README", ".", "md">>,
      repoUrl \o <<"/", "raw", "/", "main", "/", "README", ".", "rst">>>>

\* what awaiting axios.get yields: a rejection, or a response with a status
\* and a body
GetResponses ==
    {[kind |-> "throw", status |-> 0, data |-> <<>>]}
    \cup {[kind |-> "response", status |-> 200, data |-> d] :
            d \in {<<"README from master">>, <<"README from main">>}}
    \cup {[kind |-> "response", status |-> st, data |-> <<"Not Found">>] :
            st \in {204, 404}}

ReadmeStart ==
    [pc |-> "START", repoUrl |-> <<>>, next |-> 1, requested |-> <<>>,
     responses |-> <<>>, result |-> Undef]

\* entry of the function, up to the first await of axios.get
pluginMeta_readmeContentFetch(repoUrl) ==
    [ReadmeStart EXCEPT !.pc = "AWAIT_GET", !.repoUrl = repoUrl,
                        !.requested = <<ReadmeUrls(repoUrl)[1]>>]

\* faulty variant of ReadmeAfterGet: a request that throws ends the search
ReadmeAfterGet_ThrowAborts(r, response) ==
    LET seen == [r EXCEPT !.responses = Append(r.responses, response)]
        readmeUrls == ReadmeUrls(r.repoUrl)
    IN  IF response.kind = "response" /\ response.status = 200
        THEN [seen EXCEPT !.pc = "RETURNED", !.result = Str(response.data)]
        ELSE IF response.kind = "throw" \/ r.next = Len(readmeUrls)
        THEN [seen EXCEPT !.pc = "RETURNED", !.result = Null]
        ELSE [seen EXCEPT !.next = r.next + 1,
                          !.requested = Append(r.requested, readmeUrls[r.next + 1])]

\* one turn of the loop, from the settling of axios.get to the next await or
\* the return
ReadmeAfterGet(r, response) ==
    LET seen == [r EXCEPT !.responses = Append(r.responses, response)]
        readmeUrls == ReadmeUrls(r.repoUrl)
    IN  IF response.kind = "response" /\ response.status = 200
        THEN [seen EXCEPT !.pc = "RETURNED", !.result = Str(response.data)]
        ELSE IF r.next = Len(readmeUrls)
        THEN [seen EXCEPT !.pc = "RETURNED", !.result = Null]
        ELSE [seen EXCEPT !.next = r.next + 1,
                          !.requested = Append(r.requested, readmeUrls[r.next + 1])]

\* ------------------------------------------------------------------------
\* files_mkdir
\* ------------------------------------------------------------------------

\* String.prototype.includes
Includes(text, sub) ==
    \E k \in 0..(Len(text) - Len(sub)) : SubSeq(text, k + 1, k + Len(sub)) = sub

FolderPaths ==
    {<<"/", "test", "/", "folder">>, <<"/", "existing", "/", "folder">>,
     <<"/", "error", "/", "folder">>, <<"/", "home", "/", "alice", "/", "dest">>,
     <<"/", "home", "/", "alice", "/", "dest", "/", "subdir">>}

\* what a rejected await throws: an Error with a message and, for an HTTP
\* failure, a response with a status and possibly data.path[0]
NoError == [kind |-> "none", message |-> <<>>, hasResponse |-> FALSE, status |-> 0,
            hasPath |-> FALSE, path0 |-> <<>>]

PlainErrors ==
    {[NoError EXCEPT !.kind = "error", !.message = msg] :
        msg \in {<<"API error">>, <<"Network Error">>}}

HttpErrors ==
    {[kind |-> "error", message |-> <<"Request failed">>, hasResponse |-> TRUE,
      status |-> st, hasPath |-> TRUE, path0 |-> text] :
        st \in {400, 409, 500},
        text \in {<<"Folder with this path ", "already exists", ".">>,
                  <<"already exists">>,
                  <<"This field may not be blank.">>}}
    \cup {[kind |-> "error", message |-> <<"Request failed">>, hasResponse |-> TRUE,
           status |-> st, hasPath |-> FALSE, path0 |-> <<>>] : st \in {400, 403, 500}}

\* what awaiting chrisConnection.client_get yields
ClientResponses ==
    {[kind |-> k, error |-> NoError] : k \in {"null", "client"}}
    \cup {[kind |-> "throw", error |-> e] : e \in PlainErrors}

\* what awaiting client.getFileBrowserFolders yields
FolderListResponses ==
    {[kind |-> "list", error |-> NoError]}
    \cup {[kind |-> "throw", error |-> e] : e \in PlainErrors}

\* what awaiting folderList.post yields: a response with data, one without,
\* nothing, or a rejection
PostResponses ==
    {[kind |-> k, error |-> NoError] : k \in {"data", "nodata", "null"}}
    \cup {[kind |-> "throw", error |-> e] : e \in PlainErrors \cup HttpErrors}

MkdirStart ==
    [pc |-> "START", folderPath |-> <<>>, requests |-> <<>>, posted |-> <<>>,
     thrown |-> NoError, response |-> "none", stack |-> <<>>, result |-> "none"]

\* errorStack.stack_push(type, message) followed by `return value`
MkdirReturn(m, value, type, message) ==
    [m EXCEPT !.pc = "RETURNED", !.result = value,
              !.stack = Append(m.stack, [type |-> type, message |-> message])]

\* faulty variant of IsAlreadyExists: the status of the response is not tested
IsAlreadyExists_AnyStatus(error) ==
    /\ error.hasResponse
    /\ error.hasPath
    /\ Includes(error.path0, <<"already exists">>)

\* the type guard of the catch block: a 400 response whose data.path[0]
\* contains 'already exists'
IsAlreadyExists(error) ==
    /\ error.hasResponse
    /\ error.status = 400
    /\ error.hasPath
    /\ Includes(error.path0, <<"already exists">>)

\* the catch block
MkdirCatch(m, error) ==
    LET caught == [m EXCEPT !.thrown = error]
    IN  IF IsAlreadyExists(error)
        THEN MkdirReturn(caught, "true", "warning",
                 <<"Folder '">> \o m.folderPath \o <<"' already exists.">>)
        ELSE MkdirReturn(caught, "false", "error",
                 <<"Error creating folder '">> \o m.folderPath \o <<"': ">> \o error.message)

\* entry of files_mkdir, up to the await of client_get
files_mkdir(folderPath) ==
    [MkdirStart EXCEPT !.pc = "AWAIT_CLIENT", !.folderPath = folderPath,
                       !.requests = <<"client_get">>]

\* from the settling of client_get to the next await or the return
MkdirAfterClient(m, r) ==
    IF r.kind = "throw" THEN MkdirCatch(m, r.error)
    ELSE IF r.kind = "null"
    THEN MkdirReturn([m EXCEPT !.response = "noclient"], "false", "error",
             <<"Not connected to ChRIS. Cannot create folder.">>)
    ELSE [m EXCEPT !.pc = "AWAIT_FOLDERS",
                   !.requests = Append(m.requests, "getFileBrowserFolders")]

\* from the settling of getFileBrowserFolders to the await of post
MkdirAfterFolders(m, r) ==
    IF r.kind = "throw" THEN MkdirCatch(m, r.error)
    ELSE [m EXCEPT !.pc = "AWAIT_POST", !.requests = Append(m.requests, "post"),
                   !.posted = Append(m.posted, m.folderPath)]

\* from the settling of post to the return
MkdirAfterPost(m, r) ==
    IF r.kind = "throw" THEN MkdirCatch(m, r.error)
    ELSE IF r.kind = "data"
    THEN [m EXCEPT !.pc = "RETURNED", !.result = "true", !.response = r.kind]
    ELSE MkdirReturn([m EXCEPT !.response = r.kind], "false", "error",
             <<"Failed to create folder: ">> \o m.folderPath
                 \o <<". No data in response.">>)

\* ------------------------------------------------------------------------
\* feed_create, called on its own
\* ------------------------------------------------------------------------

MaxDirs == 2

DirNames == {<<"/", "tmp", "/", "data">>, <<"/", "a">>, <<"/", "b">>}

\* the arrays of at most MaxDirs directories
DirLists == UNION {[1..n -> DirNames] : n \in 0..MaxDirs}

\* the second argument: left out, or an object
ParamsArguments ==
    {[given |-> FALSE, value |-> EmptyDict]}
    \cup {[given |-> TRUE, value |-> d] :
            d \in {EmptyDict,
                   <<[k |-> "name", v |-> Str(<<"test-feed">>)]>>,
                   <<[k |-> "params", v |-> Str(<<"title:", "Brain">>)]>>}}

\* the default value of the parameter: params = {}
ParamsOrDefault(argument) == IF argument.given THEN argument.value ELSE EmptyDict

FeedCallStart ==
    [pc |-> "START", dirs |-> <<>>, params |-> [given |-> FALSE, value |-> EmptyDict],
     requests |-> <<>>, response |-> NoFeedResponse, outcome |-> "none",
     value |-> NoFeedResponse]

\* entry of feed_create, up to the await of createFromDirs
FeedCallBegin(dirs, argument) ==
    [FeedCallStart EXCEPT !.pc = "AWAIT_CREATE", !.dirs = dirs, !.params = argument,
                          !.requests = <<feed_create(dirs, ParamsOrDefault(argument))>>]

\* `return await chrisFeed.createFromDirs(...)`: what the backend yields is
\* handed back as it is, a rejection included
FeedCallAfterCreate(f, r) ==
    [f EXCEPT !.pc = "DONE", !.response = r,
              !.outcome = IF r.kind = "throw" THEN "rejected" ELSE "returned",
              !.value = IF r.kind = "throw" THEN NoFeedResponse ELSE r]

\* ------------------------------------------------------------------------
\* files_copyRecursively
\* ------------------------------------------------------------------------

SrcPath == <<"/", "home", "/", "alice", "/", "src">>

DestPaths == {<<"/", "home", "/", "alice", "/", "dest">>, <<"/", "home", "/", "bob", "/", "copy">>}

\* an FsItem under SrcPath; fname may come without its leading slash
FsFile(relative, slash) ==
    [path |-> (IF slash THEN <<"/">> ELSE <<>>)
                  \o <<"home", "/", "alice", "/", "src", "/">> \o relative,
     type |-> "file"]

FsDir(relative) == [path |-> SrcPath \o <<"/">> \o relative, type |-> "dir"]

\* what awaiting files_listRecursive(srcPath) yields: a list of items, or a
\* rejection (it has no catch of its own)
ItemLists ==
    {<<>>,
     <<FsFile(<<"a.txt">>, TRUE)>>,
     <<FsFile(<<"a.txt">>, TRUE), FsFile(<<"c.txt">>, TRUE)>>,
     <<FsFile(<<"a.txt">>, FALSE), FsDir(<<"sub">>), FsFile(<<"sub", "/", "b.txt">>, TRUE)>>,
     <<FsDir(<<"sub">>), FsDir(<<"sub", "/", "deep">>)>>}

ListResponses ==
    {[kind |-> "items", items |-> l] : l \in ItemLists}
    \cup {[kind |-> "throw", items |-> <<>>]}

RcopyStart ==
    [pc |-> "START", srcPath |-> <<>>, destPath |-> <<>>, rootCreated |-> "none",
     items |-> <<>>, at |-> 0, attempts |-> <<>>, outcomes |-> <<>>,
     successCount |-> 0, failCount |-> 0, raised |-> FALSE,
     stack |-> <<>>, result |-> "none"]

\* item.path.startsWith('/') ? item.path : '/' + item.path
NormalizedItemPath(item) ==
    IF Len(item.path) > 0 /\ item.path[1] = "/" THEN item.path ELSE <<"/">> \o item.path

\* normalizedItemPath.substring(srcPath.length).replace(/^\//, '')
RelativePath(item, srcPath) ==
    LET rest == SubSeq(NormalizedItemPath(item), Len(srcPath) + 1,
                       Len(NormalizedItemPath(item)))
    IN  IF Len(rest) > 0 /\ rest[1] = "/" THEN Tail(rest) ELSE rest

\* path.posix.join(destPath, relativePath)
TargetPath(item, srcPath, destPath) ==
    IF RelativePath(item, srcPath) = <<>> THEN destPath
    ELSE destPath \o <<"/">> \o RelativePath(item, srcPath)

\* the sub-call made for the item at position n: files_mkdir for a
\* directory, files_copy for a file
ItemAttempt(c, n) ==
    [op |-> IF c.items[n].type = "dir" THEN "files_mkdir" ELSE "files_copy",
     src |-> NormalizedItemPath(c.items[n]),
     target |-> TargetPath(c.items[n], c.srcPath, c.destPath)]

\* the loop from position n on: the next sub-call is awaited, or the loop is
\* over and failCount === 0 is returned
RcopyLoop(c, n) ==
    IF n <= Len(c.items)
    THEN [c EXCEPT !.pc = "AWAIT_ITEM", !.at = n,
                   !.attempts = Append(c.attempts, ItemAttempt(c, n))]
    ELSE [c EXCEPT !.pc = "RETURNED",
                   !.result = IF c.failCount = 0 THEN "true" ELSE "false"]

\* entry of files_copyRecursively, up to the await of files_mkdir(destPath)
files_copyRecursively(srcPath, destPath) ==
    [RcopyStart EXCEPT !.pc = "AWAIT_ROOT", !.srcPath = srcPath, !.destPath = destPath]

\* files_mkdir(destPath) has returned: its value is dropped, the listing of
\* the source is awaited
RcopyAfterRoot(c, created) ==
    [c EXCEPT !.pc = "AWAIT_LIST", !.rootCreated = IF created THEN "true" ELSE "false"]

\* files_listRecursive has settled
RcopyAfterList(c, r) ==
    IF r.kind = "throw"
    THEN [c EXCEPT !.pc = "RETURNED", !.raised = TRUE, !.result = "false",
                   !.stack = Append(c.stack, "Recursive copy failed")]
    ELSE RcopyLoop([c EXCEPT !.items = r.items], 1)

\* the sub-call of the current item has returned
RcopyAfterItem(c, ok) ==
    RcopyLoop([c EXCEPT !.outcomes = Append(c.outcomes, ok),
                        !.successCount = IF ok THEN c.successCount + 1 ELSE c.successCount,
                        !.failCount = IF ok THEN c.failCount ELSE c.failCount + 1],
              c.at + 1)

\* ------------------------------------------------------------------------
\* files_copy
\* ------------------------------------------------------------------------

\* path.posix.dirname(p) for a path with a directory part
Dirname(p) ==
    LET stripped == StripTrailingSlashes(p)
        slashes == {n \in 1..Len(stripped) : stripped[n] = "/"}
    IN  IF slashes = {} THEN <<".">>
        ELSE LET last == CHOOSE n \in slashes : \A m \in slashes : m <= n
             IN  IF last = 1 THEN <<"/">> ELSE SubSeq(stripped, 1, last - 1)

CopySources ==
    {<<"/", "home", "/", "alice", "/", "src", "/", "a.txt">>,
     <<"/", "home", "/", "alice", "/", "src", "/", "sub", "/", "b.txt">>}

CopyDestinations ==
    {<<"/", "home", "/", "alice", "/", "dest", "/", "a.txt">>,
     <<"/", "home", "/", "bob", "/", "copy.txt">>}

\* rows of a file listing: fname (the full path, possibly without its
\* leading slash) and id
FileRows ==
    {[fname |-> <<"/", "home", "/", "alice", "/", "src", "/", "a.txt">>, id |-> 7],
     [fname |-> <<"home", "/", "alice", "/", "src", "/", "sub", "/", "b.txt">>, id |-> 8],
     [fname |-> <<"/", "home", "/", "alice", "/", "src", "/", "other.txt">>, id |-> 9]}

\* what awaiting files_getGroup yields
GroupResponses == {[kind |-> k] : k \in {"null", "group", "throw"}}

\* what awaiting resources_getAll yields: nothing, a result without
\* tableData, a table, or a rejection
TableResponses ==
    {[kind |-> k, tableData |-> <<>>] : k \in {"null", "notable", "throw"}}
    \cup {[kind |-> "table", tableData |-> rows] :
            rows \in {<<>>} \cup {<<r>> : r \in FileRows}
                     \cup {<<r, q>> : r \in FileRows, q \in FileRows}}

\* what awaiting chrisIO.file_download yields
DownloadResponses ==
    {[kind |-> k, content |-> <<>>] : k \in {"null", "throw"}}
    \cup {[kind |-> "content", content |-> c] : c \in {<<>>, <<"bytes">>}}

\* what awaiting files_create yields: it never throws, and on failure it has
\* pushed one error of its own
CreateResponses ==
    {[ok |-> TRUE, pushed |-> <<>>]}
    \cup {[ok |-> FALSE, pushed |-> <<msg>>] :
            msg \in {"File upload failed", "File creation failed"}}

CopyStart ==
    [pc |-> "START", srcPath |-> <<>>, destPath |-> <<>>, steps |-> <<>>,
     tableData |-> <<>>, matched |-> FALSE, fileId |-> 0, downloaded |-> FALSE,
     uploaded |-> "none", failure |-> "none", printed |-> <<>>,
     stack |-> <<>>, result |-> "none"]

\* errorStack.stack_push('error', message); return false
CopyFail(c, failure, message) ==
    [c EXCEPT !.pc = "RETURNED", !.result = "false", !.failure = failure,
              !.stack = Append(c.stack, message)]

\* the catch block
CopyCatch(c) == CopyFail(c, "raised", "Copy failed")

\* the rows find() accepts: fname === srcPath || basename(fname) === srcName
CopyMatches(c) ==
    {n \in 1..Len(c.tableData) :
        \/ c.tableData[n].fname = c.srcPath
        \/ Basename(c.tableData[n].fname) = Basename(c.srcPath)}

\* entry of files_copy, up to the await of files_getGroup('files', srcDir)
files_copy(srcPath, destPath) ==
    [CopyStart EXCEPT !.pc = "AWAIT_GROUP", !.srcPath = srcPath, !.destPath = destPath,
                      !.steps = <<[op |-> "files_getGroup", arg |-> Dirname(srcPath)]>>]

\* files_getGroup has settled
CopyAfterGroup(c, r) ==
    IF r.kind = "throw" THEN CopyCatch(c)
    ELSE IF r.kind = "null"
    THEN CopyFail(c, "nogroup", "Could not access source directory")
    ELSE [c EXCEPT !.pc = "AWAIT_LIST",
                   !.steps = Append(c.steps, [op |-> "resources_getAll", arg |-> <<>>])]

\* resources_getAll has settled: the file id is looked up
CopyAfterList(c, r) ==
    IF r.kind = "throw" THEN CopyCatch(c)
    ELSE LET listed == [c EXCEPT !.tableData = IF r.kind = "table" THEN r.tableData ELSE <<>>]
             matches == CopyMatches(listed)
         IN  IF matches = {}
             THEN CopyFail(listed, "notfound", "Source file not found")
             ELSE LET first == CHOOSE n \in matches : \A m \in matches : n <= m
                      fileId == listed.tableData[first].id
                  IN  [listed EXCEPT !.pc = "AWAIT_DOWNLOAD", !.matched = TRUE,
                                     !.fileId = fileId,
                                     !.steps = Append(c.steps,
                                         [op |-> "file_download", arg |-> Digits(fileId)])]

\* file_download has settled
CopyAfterDownload(c, r) ==
    IF r.kind = "throw" THEN CopyCatch(c)
    ELSE IF r.kind = "null"
    THEN CopyFail(c, "download", "Failed to download source file")
    ELSE [c EXCEPT !.pc = "AWAIT_UPLOAD", !.downloaded = TRUE,
                   !.steps = Append(c.steps, [op |-> "files_create", arg |-> c.destPath])]

\* files_create has returned: on failure the error it pushed is popped off
\* the stack and printed
CopyAfterUpload(c, r) ==
    LET stack == c.stack \o r.pushed
    IN  IF r.ok
        THEN [c EXCEPT !.pc = "RETURNED", !.result = "true", !.uploaded = "true",
                       !.stack = stack]
        ELSE [c EXCEPT !.pc = "RETURNED", !.result = "false", !.uploaded = "false",
                       !.failure = "upload",
                       !.stack = IF stack = <<>> THEN stack
                                 ELSE SubSeq(stack, 1, Len(stack) - 1),
                       !.printed = IF stack = <<>> THEN <<>> ELSE <<stack[Len(stack)]>>]

\* ------------------------------------------------------------------------
\* plugins_searchPeers
\* ------------------------------------------------------------------------

\* the longest list of peer stores a caller passes
MaxStores == 2

DefaultPeerStoreUrls ==
    <<(<<"https", "://", "cube.chrisproject.org", "/", "api", "/", "v1", "/">>)>>

StoreUrls ==
    {<<"https", "://", "cube.chrisproject.org", "/", "api", "/", "v1", "/">>,
     <<"http", "://", "localhost", ":", "8000", "/", "api", "/", "v1", "/">>,
     <<"not a url">>}

StoreUrlLists ==
    {<<>>} \cup UNION {[1..n -> StoreUrls] : n \in 1..MaxStores}

\* the peerStoreUrls argument: left out, or a list
StoreArguments ==
    {[given |-> FALSE, value |-> <<>>]}
    \cup {[given |-> TRUE, value |-> l] : l \in StoreUrlLists}

\* the optional version argument
VersionArguments == {Undef, Str(<<"1.0.0">>)}

\* what awaiting plugin_searchPeerStore yields: null, a match, or a rejection
SearchResponses ==
    {[kind |-> k, plugin |-> <<>>, storeUrl |-> <<>>] : k \in {"null", "throw"}}
    \cup {[kind |-> "match", plugin |-> <<"pl-dircopy">>, storeUrl |-> u] :
            u \in {<<"http", "://", "store", "/", "api", "/", "v1", "/", "plugins", "/", "1", "/">>,
                   <<"https", "://", "cube.chrisproject.org", "/", "api", "/", "v1", "/",
                     "plugins", "/", "2", "/">>}}

PeersStart ==
    [pc |-> "START", pluginName |-> <<>>, version |-> Undef, urls |-> <<>>,
     at |-> 0, queried |-> <<>>, answers |-> <<>>, outcome |-> "none",
     plugin |-> <<>>, storeUrl |-> <<>>, storeName |-> <<>>]

\* new URL(url).hostname, and the url itself when it does not parse
storeName_extractFromUrl(url) ==
    IF Len(url) >= 3 /\ url[1] \in {"http", "https"} /\ url[2] = "://"
    THEN <<url[3]>>
    ELSE url

\* the head of the for loop: the next store is queried, or null is returned
PeersLoop(p, n) ==
    IF n > Len(p.urls)
    THEN [p EXCEPT !.pc = "RETURNED", !.outcome = "null", !.at = n]
    ELSE [p EXCEPT !.pc = "AWAIT_SEARCH", !.at = n,
                   !.queried = Append(p.queried,
                       [pluginName |-> p.pluginName, version |-> p.version,
                        peerStoreUrl |-> p.urls[n]])]

\* entry of plugins_searchPeers, up to the first await
plugins_searchPeers(pluginName, version, stores) ==
    PeersLoop([PeersStart EXCEPT !.pluginName = pluginName, !.version = version,
                                 !.urls = IF stores.given THEN stores.value
                                          ELSE DefaultPeerStoreUrls],
              1)

\* faulty variant of PeersAfterSearch: the store name is taken from the URL
\* of the match
PeersAfterSearch_NameFromMatch(p, r) ==
    LET answered == [p EXCEPT !.answers = Append(p.answers, r)]
    IN  IF r.kind = "throw"
        THEN [answered EXCEPT !.pc = "REJECTED", !.outcome = "rejected"]
        ELSE IF r.kind = "match"
        THEN [answered EXCEPT !.pc = "RETURNED", !.outcome = "match",
                              !.plugin = r.plugin, !.storeUrl = r.storeUrl,
                              !.storeName = storeName_extractFromUrl(r.storeUrl)]
        ELSE PeersLoop(answered, p.at + 1)

\* plugin_searchPeerStore has settled
PeersAfterSearch(p, r) ==
    LET answered == [p EXCEPT !.answers = Append(p.answers, r)]
    IN  IF r.kind = "throw"
        THEN [answered EXCEPT !.pc = "REJECTED", !.outcome = "rejected"]
        ELSE IF r.kind = "match"
        THEN [answered EXCEPT !.pc = "RETURNED", !.outcome = "match",
                              !.plugin = r.plugin, !.storeUrl = r.storeUrl,
                              !.storeName = storeName_extractFromUrl(p.urls[p.at])]
        ELSE PeersLoop(answered, p.at + 1)

\* ------------------------------------------------------------------------
\* files_listRecursive
\* ------------------------------------------------------------------------

\* the directory that is listed
ListRoot == <<"/", "data">>

\* every directory a tree may hold beneath the root
DirUniverse ==
    {ListRoot \o <<"/", "a">>,
     ListRoot \o <<"/", "b">>,
     ListRoot \o <<"/", "a", "/", "c">>}

\* every file a tree may hold beneath the root
FileUniverse ==
    {ListRoot \o <<"/", "f.txt">>,
     ListRoot \o <<"/", "g.txt">>,
     ListRoot \o <<"/", "a", "/", "f.txt">>,
     ListRoot \o <<"/", "b", "/", "f.txt">>,
     ListRoot \o <<"/", "a", "/", "c", "/", "f.txt">>}

\* the directory an entry stands in
ParentOf(path) == SubSeq(path, 1, Len(path) - 2)

\* the finite trees: sets of entries in which every entry stands in the root
\* or in a directory of the set
Trees ==
    {t \in SUBSET (DirUniverse \cup FileUniverse) :
        \A e \in t : ParentOf(e) = ListRoot \/ ParentOf(e) \in (t \cap DirUniverse)}

\* the order in which the backend lists entries
BackendOrder ==
    <<ListRoot \o <<"/", "g.txt">>,
      ListRoot \o <<"/", "f.txt">>,
      ListRoot \o <<"/", "b">>,
      ListRoot \o <<"/", "a">>,
      ListRoot \o <<"/", "a", "/", "f.txt">>,
      ListRoot \o <<"/", "a", "/", "c">>,
      ListRoot \o <<"/", "b", "/", "f.txt">>,
      ListRoot \o <<"/", "a", "/", "c", "/", "f.txt">>>>

\* tableData of the files (asset "files") or folders (asset "dirs") that
\* stand in directory dir of tree fs
TableOf(fs, asset, dir) ==
    SelectSeq(BackendOrder,
              LAMBDA e : /\ e \in fs
                         /\ ParentOf(e) = dir
                         /\ e \in (IF asset = "files" THEN FileUniverse ELSE DirUniverse))

\* what awaiting files_getGroup and resources_getAll yields for a directory:
\* its table, nothing (no group, no result or no tableData), or a rejection
\* of resources_getAll
TableResponsesOf(fs, asset, dir) ==
    {[kind |-> "rows", rows |-> TableOf(fs, asset, dir)],
     [kind |-> "none", rows |-> <<>>],
     [kind |-> "throw", rows |-> <<>>]}

ListingStart ==
    [pc |-> "START", fs |-> {}, stack |-> <<>>, requests |-> <<>>,
     unanswered |-> {}, result |-> <<>>]

\* a call of files_listRecursive(rootPath), up to its first await: a frame on
\* the stack of calls and the request for the files of rootPath
ListingCall(s, rootPath) ==
    [s EXCEPT !.stack = Append(@, [rootPath |-> rootPath, pc |-> "AWAIT_FILES",
                                   items |-> <<>>, dirs |-> <<>>, at |-> 0]),
              !.requests = Append(@, [asset |-> "files", path |-> rootPath])]

\* entry of the outermost call
files_listRecursive(fs, rootPath) ==
    ListingCall([ListingStart EXCEPT !.pc = "RUNNING", !.fs = fs], rootPath)

\* the frame of the call that is running
TopFrame(s) == s.stack[Len(s.stack)]

\* the stack of calls with its top frame replaced
WithTop(s, frame) == [s EXCEPT !.stack[Len(s.stack)] = frame]

\* an exception leaves every call on the stack: none of them catches
ListingRejected(s) == [s EXCEPT !.pc = "REJECTED", !.stack = <<>>]

\* a listing that came back without a table is remembered
Unanswered(s, asset, r) ==
    IF r.kind = "none"
    THEN [s EXCEPT !.unanswered = @ \cup {[asset |-> asset, path |-> TopFrame(s).rootPath]}]
    ELSE s

\* the files of rootPath have been listed: one item of type file for each
\* row, then the request for the folders of rootPath
ListingAfterFiles(s, r) ==
    IF r.kind = "throw" THEN ListingRejected(s)
    ELSE LET top == TopFrame(s)
             files == [n \in 1..Len(r.rows) |-> [path |-> r.rows[n], type |-> "file"]]
             noted == Unanswered(s, "files", r)
         IN  [WithTop(noted, [top EXCEPT !.pc = "AWAIT_DIRS", !.items = @ \o files])
                 EXCEPT !.requests = Append(@, [asset |-> "dirs", path |-> top.rootPath])]

\* the head of the loop over the folders: the folder is pushed as an item of
\* type dir and listed by a call of its own, or the call is over
ListingDirsLoop(s) ==
    LET top == TopFrame(s)
    IN  IF top.at > Len(top.dirs)
        THEN WithTop(s, [top EXCEPT !.pc = "DONE"])
        ELSE ListingCall(
                 WithTop(s, [top EXCEPT !.pc = "AWAIT_SUB",
                                        !.items = Append(@, [path |-> top.dirs[top.at],
                                                             type |-> "dir"])]),
                 top.dirs[top.at])

\* the folders of rootPath have been listed
ListingAfterDirs(s, r) ==
    IF r.kind = "throw" THEN ListingRejected(s)
    ELSE IF r.kind = "none"
    THEN LET noted == Unanswered(s, "dirs", r)
         IN  WithTop(noted, [TopFrame(s) EXCEPT !.pc = "DONE"])
    ELSE ListingDirsLoop(WithTop(s, [TopFrame(s) EXCEPT !.dirs = r.rows, !.at = 1]))

\* faulty variant of ListingAfterSub: the items of a folder are put in front
\* of what the caller holds
ListingAfterSub_Prepend(s) ==
    LET top == TopFrame(s)
    IN  IF Len(s.stack) = 1
        THEN [s EXCEPT !.pc = "RETURNED", !.stack = <<>>, !.result = top.items]
        ELSE LET popped == [s EXCEPT !.stack = SubSeq(@, 1, Len(@) - 1)]
                 caller == TopFrame(popped)
             IN  ListingDirsLoop(
                     WithTop(popped, [caller EXCEPT !.items = top.items \o @,
                                                    !.at = @ + 1]))

\* a call returns its items: the outermost call to its caller, an inner call
\* to the loop that awaits it, which appends them and goes on
ListingAfterSub(s) ==
    LET top == TopFrame(s)
    IN  IF Len(s.stack) = 1
        THEN [s EXCEPT !.pc = "RETURNED", !.stack = <<>>, !.result = top.items]
        ELSE LET popped == [s EXCEPT !.stack = SubSeq(@, 1, Len(@) - 1)]
                 caller == TopFrame(popped)
             IN  ListingDirsLoop(
                     WithTop(popped, [caller EXCEPT !.items = @ \o top.items,
                                                    !.at = @ + 1]))

\* ------------------------------------------------------------------------
\* State
\* ------------------------------------------------------------------------

VARIABLES
    pc,           \* where each invocation stands: START, AWAIT_FEED, AWAIT_RUN, SUCCESS, FAIL, THROWN
    args,         \* the arguments of each invocation
    helpers,      \* what path_extractPluginInstanceID and path_extractFeedID answer for cwd
    loc,          \* the local constants of each invocation
    feedResult,   \* what the awaited feed_create yielded
    pluginResult, \* what the awaited plugin_run yielded
    result,       \* what the invocation handed to its caller
    calls,        \* every request made to the remote system, in order
    pending,      \* the requests that have not settled yet
    errorStack,   \* the process-wide error stack (by: the invocation that pushed)
    readme,       \* a call of pluginMeta_readmeContentFetch
    mkdir,        \* a call of files_mkdir
    feedCall,     \* a direct call of feed_create
    rcopy,        \* a call of files_copyRecursively
    copy,         \* a call of files_copy
    peers,        \* a call of plugins_searchPeers
    listing       \* a call of files_listRecursive

\* the variables of plugin_executeInPlace
orchVars == <<pc, args, helpers, loc, feedResult, pluginResult, result, calls, pending, errorStack>>

vars == <<pc, args, helpers, loc, feedResult, pluginResult, result, calls, pending, errorStack,
          readme, mkdir, feedCall, rcopy, copy, peers, listing>>

Init ==
    /\ pc = [i \in Procs |-> "START"]
    /\ args = [i \in Procs |-> NoArgs]
    /\ helpers = [i \in Procs |-> NoHelpers]
    /\ loc = [i \in Procs |-> NoLocals]
    /\ feedResult = [i \in Procs |-> NoFeedResponse]
    /\ pluginResult = [i \in Procs |-> NoRunResponse]
    /\ result = [i \in Procs |-> NoResult]
    /\ calls = <<>>
    /\ pending = {}
    /\ errorStack = <<>>
    /\ readme = ReadmeStart
    /\ mkdir = MkdirStart
    /\ feedCall = FeedCallStart
    /\ rcopy = RcopyStart
    /\ copy = CopyStart
    /\ peers = PeersStart
    /\ listing = ListingStart

\* requests and messages carry the invocation they belong to
Tagged(i, recs) ==
    [j \in 1..Len(recs) |-> [by |-> i, rec |-> recs[j]]]

\* faulty variant of Step: an invocation that fails empties the error stack
\* before it pushes its message
Step_StackCleared(i, settled, out) ==
    /\ pc' = [pc EXCEPT ![i] = out.pc]
    /\ loc' = [loc EXCEPT ![i] = out.loc]
    /\ result' = [result EXCEPT ![i] = out.result]
    /\ calls' = calls \o Tagged(i, out.calls)
    /\ pending' = (pending \ settled)
                     \cup {[by |-> i, fn |-> out.calls[j].fn] : j \in 1..Len(out.calls)}
    /\ errorStack' = IF out.msgs = <<>> THEN errorStack ELSE Tagged(i, out.msgs)

\* faulty variant of Step: the local constants are kept in variables of the
\* module, one copy for all invocations
Step_SharedLocals(i, settled, out) ==
    /\ pc' = [pc EXCEPT ![i] = out.pc]
    /\ loc' = [j \in Procs |-> out.loc]
    /\ result' = [result EXCEPT ![i] = out.result]
    /\ calls' = calls \o Tagged(i, out.calls)
    /\ pending' = (pending \ settled)
                     \cup {[by |-> i, fn |-> out.calls[j].fn] : j \in 1..Len(out.calls)}
    /\ errorStack' = errorStack \o Tagged(i, out.msgs)

\* the state change common to every step of invocation i
Step(i, settled, out) ==
    /\ pc' = [pc EXCEPT ![i] = out.pc]
    /\ loc' = [loc EXCEPT ![i] = out.loc]
    /\ result' = [result EXCEPT ![i] = out.result]
    /\ calls' = calls \o Tagged(i, out.calls)
    /\ pending' = (pending \ settled)
                     \cup {[by |-> i, fn |-> out.calls[j].fn] : j \in 1..Len(out.calls)}
    /\ errorStack' = errorStack \o Tagged(i, out.msgs)

\* a caller invokes plugin_executeInPlace with arguments out of inputs
InvokeFrom(i, inputs) ==
    /\ pc[i] = "START"
    /\ \E a \in inputs :
       \E previousID \in path_extractPluginInstanceID(a.cwd) :
       \E feedID \in path_extractFeedID(a.cwd) :
          /\ args' = [args EXCEPT ![i] = a]
          /\ helpers' = [helpers EXCEPT ![i] =
                            IF path_isInFeed(a.cwd)
                            THEN [previousID |-> previousID, feedID |-> feedID]
                            ELSE NoHelpers]
          /\ Step(i, {}, plugin_executeInPlace(a, previousID, feedID))
    /\ UNCHANGED <<feedResult, pluginResult>>
    /\ UNCHANGED <<readme, mkdir, feedCall, rcopy, copy, peers, listing>>

\* the awaited feed_create settles with one of responses
FeedCreateSettlesWith(i, responses) ==
    /\ pc[i] = "AWAIT_FEED"
    /\ \E r \in responses :
          /\ feedResult' = [feedResult EXCEPT ![i] = r]
          /\ Step(i, {[by |-> i, fn |-> "createFromDirs"]},
                  NewFeedAfterCreate(args[i], loc[i], r))
    /\ UNCHANGED <<args, helpers, pluginResult>>
    /\ UNCHANGED <<readme, mkdir, feedCall, rcopy, copy, peers, listing>>

\* the awaited plugin_run settles with one of responses
PluginRunSettlesWith(i, responses) ==
    /\ pc[i] = "AWAIT_RUN"
    /\ \E r \in responses :
          /\ pluginResult' = [pluginResult EXCEPT ![i] = r]
          /\ Step(i, {[by |-> i, fn |-> "plugin_run"]}, AfterRun(args[i], loc[i], r))
    /\ UNCHANGED <<args, helpers, feedResult>>
    /\ UNCHANGED <<readme, mkdir, feedCall, rcopy, copy, peers, listing>>

\* a caller invokes plugin_executeInPlace
Invoke(i) == InvokeFrom(i, Inputs)

\* the awaited feed_create settles
FeedCreateSettles(i) == FeedCreateSettlesWith(i, FeedResponses)

\* the awaited plugin_run settles
PluginRunSettles(i) == PluginRunSettlesWith(i, RunResponses)

Next ==
    \/ Invoke(1)
    \/ FeedCreateSettles(1)
    \/ PluginRunSettles(1)

Spec == Init /\ [][Next]_vars

\* the awaited feed_create returns: it yields null or a record, no rejection
FeedCreateReturns(i) ==
    FeedCreateSettlesWith(i, {r \in FeedResponses : r.kind # "throw"})

\* the awaited plugin_run returns: it yields null or a record, no rejection
PluginRunReturns(i) ==
    PluginRunSettlesWith(i, {r \in RunResponses : r.kind # "throw"})

NextReturns ==
    \/ Invoke(1)
    \/ FeedCreateReturns(1)
    \/ PluginRunReturns(1)

\* one invocation whose remote calls all return, and return eventually: a
\* request that is awaited is answered (weak fairness of the two returns)
SpecReturns ==
    /\ Init
    /\ [][NextReturns]_vars
    /\ WF_vars(FeedCreateReturns(1))
    /\ WF_vars(PluginRunReturns(1))

\* the arguments of two invocations that run side by side: a new analysis
\* and one inside feed 10 under instance 9, with or without a directory-copy
\* plugin listed, with or without a feed title
ConcInputs ==
    {a \in Inputs :
        /\ a.cwd \in {FreshCwd, InstanceCwd(10, Digits(9))}
        /\ a.binListing \in {<<>>, <<Dircopy100>>}
        /\ a.pluginParams = EmptyDict
        /\ a.contextParams.instance_title = Undef}

ConcFeedResponses ==
    {r \in FeedResponses :
        \/ r.kind = "null"
        \/ r.kind = "record" /\ r.id = Num(10) /\ r.pluginInstance = "absent"
        \/ r.kind = "record" /\ r.id = Num(10) /\ r.instId = Num(11)}

ConcRunResponses ==
    {r \in RunResponses :
        \/ r.kind \in {"null", "throw"}
        \/ r.kind = "record" /\ r.id = Num(9) /\ r.plugin_name = Str(<<"pl-foo">>)}

\* two invocations on one event loop: each runs without interruption from
\* one await to the next, and the steps of the two are taken in any order
NextConc ==
    \E i \in Procs :
        \/ InvokeFrom(i, ConcInputs)
        \/ FeedCreateSettlesWith(i, ConcFeedResponses)
        \/ PluginRunSettlesWith(i, ConcRunResponses)

SpecConc == Init /\ [][NextConc]_vars

\* ------------------------------------------------------------------------
\* The library functions, each called on its own
\* ------------------------------------------------------------------------

\* a caller invokes pluginMeta_readmeContentFetch
ReadmeInvoke ==
    /\ readme.pc = "START"
    /\ \E repoUrl \in RepoUrls : readme' = pluginMeta_readmeContentFetch(repoUrl)
    /\ UNCHANGED <<orchVars, mkdir, feedCall, rcopy, copy, peers, listing>>

\* the awaited axios.get settles
ReadmeGetSettles ==
    /\ readme.pc = "AWAIT_GET"
    /\ \E response \in GetResponses : readme' = ReadmeAfterGet(readme, response)
    /\ UNCHANGED <<orchVars, mkdir, feedCall, rcopy, copy, peers, listing>>

NextReadme ==
    \/ ReadmeInvoke
    \/ ReadmeGetSettles

SpecReadme == Init /\ [][NextReadme]_vars

\* a caller invokes files_mkdir
MkdirInvoke ==
    /\ mkdir.pc = "START"
    /\ \E folderPath \in FolderPaths : mkdir' = files_mkdir(folderPath)
    /\ UNCHANGED <<orchVars, readme, feedCall, rcopy, copy, peers, listing>>

\* the awaited client_get settles
MkdirClientSettles ==
    /\ mkdir.pc = "AWAIT_CLIENT"
    /\ \E r \in ClientResponses : mkdir' = MkdirAfterClient(mkdir, r)
    /\ UNCHANGED <<orchVars, readme, feedCall, rcopy, copy, peers, listing>>

\* the awaited getFileBrowserFolders settles
MkdirFoldersSettles ==
    /\ mkdir.pc = "AWAIT_FOLDERS"
    /\ \E r \in FolderListResponses : mkdir' = MkdirAfterFolders(mkdir, r)
    /\ UNCHANGED <<orchVars, readme, feedCall, rcopy, copy, peers, listing>>

\* the awaited post settles
MkdirPostSettles ==
    /\ mkdir.pc = "AWAIT_POST"
    /\ \E r \in PostResponses : mkdir' = MkdirAfterPost(mkdir, r)
    /\ UNCHANGED <<orchVars, readme, feedCall, rcopy, copy, peers, listing>>

NextMkdir ==
    \/ MkdirInvoke
    \/ MkdirClientSettles
    \/ MkdirFoldersSettles
    \/ MkdirPostSettles

SpecMkdir == Init /\ [][NextMkdir]_vars

\* a caller invokes feed_create
FeedCallInvoke ==
    /\ feedCall.pc = "START"
    /\ \E dirs \in DirLists, argument \in ParamsArguments :
          feedCall' = FeedCallBegin(dirs, argument)
    /\ UNCHANGED <<orchVars, readme, mkdir, rcopy, copy, peers, listing>>

\* the awaited createFromDirs settles
FeedCallSettles ==
    /\ feedCall.pc = "AWAIT_CREATE"
    /\ \E r \in FeedResponses : feedCall' = FeedCallAfterCreate(feedCall, r)
    /\ UNCHANGED <<orchVars, readme, mkdir, rcopy, copy, peers, listing>>

NextFeedCall ==
    \/ FeedCallInvoke
    \/ FeedCallSettles

SpecFeedCall == Init /\ [][NextFeedCall]_vars

\* a caller invokes files_copyRecursively
RcopyInvoke ==
    /\ rcopy.pc = "START"
    /\ \E destPath \in DestPaths : rcopy' = files_copyRecursively(SrcPath, destPath)
    /\ UNCHANGED <<orchVars, readme, mkdir, feedCall, copy, peers, listing>>

\* the awaited files_mkdir(destPath) returns
RcopyRootReturns ==
    /\ rcopy.pc = "AWAIT_ROOT"
    /\ \E created \in BOOLEAN : rcopy' = RcopyAfterRoot(rcopy, created)
    /\ UNCHANGED <<orchVars, readme, mkdir, feedCall, copy, peers, listing>>

\* the awaited files_listRecursive settles
RcopyListSettles ==
    /\ rcopy.pc = "AWAIT_LIST"
    /\ \E r \in ListResponses : rcopy' = RcopyAfterList(rcopy, r)
    /\ UNCHANGED <<orchVars, readme, mkdir, feedCall, copy, peers, listing>>

\* the awaited files_mkdir or files_copy of the current item returns
RcopyItemReturns ==
    /\ rcopy.pc = "AWAIT_ITEM"
    /\ \E ok \in BOOLEAN : rcopy' = RcopyAfterItem(rcopy, ok)
    /\ UNCHANGED <<orchVars, readme, mkdir, feedCall, copy, peers, listing>>

NextRcopy ==
    \/ RcopyInvoke
    \/ RcopyRootReturns
    \/ RcopyListSettles
    \/ RcopyItemReturns

SpecRcopy == Init /\ [][NextRcopy]_vars

\* a caller invokes files_copy
CopyInvoke ==
    /\ copy.pc = "START"
    /\ \E srcPath \in CopySources, destPath \in CopyDestinations :
          copy' = files_copy(srcPath, destPath)
    /\ UNCHANGED <<orchVars, readme, mkdir, feedCall, rcopy, peers, listing>>

\* the awaited files_getGroup settles
CopyGroupSettles ==
    /\ copy.pc = "AWAIT_GROUP"
    /\ \E r \in GroupResponses : copy' = CopyAfterGroup(copy, r)
    /\ UNCHANGED <<orchVars, readme, mkdir, feedCall, rcopy, peers, listing>>

\* the awaited resources_getAll settles
CopyListSettles ==
    /\ copy.pc = "AWAIT_LIST"
    /\ \E r \in TableResponses : copy' = CopyAfterList(copy, r)
    /\ UNCHANGED <<orchVars, readme, mkdir, feedCall, rcopy, peers, listing>>

\* the awaited file_download settles
CopyDownloadSettles ==
    /\ copy.pc = "AWAIT_DOWNLOAD"
    /\ \E r \in DownloadResponses : copy' = CopyAfterDownload(copy, r)
    /\ UNCHANGED <<orchVars, readme, mkdir, feedCall, rcopy, peers, listing>>

\* the awaited files_create returns
CopyUploadReturns ==
    /\ copy.pc = "AWAIT_UPLOAD"
    /\ \E r \in CreateResponses : copy' = CopyAfterUpload(copy, r)
    /\ UNCHANGED <<orchVars, readme, mkdir, feedCall, rcopy, peers, listing>>

NextCopy ==
    \/ CopyInvoke
    \/ CopyGroupSettles
    \/ CopyListSettles
    \/ CopyDownloadSettles
    \/ CopyUploadReturns

SpecCopy == Init /\ [][NextCopy]_vars

\* a caller invokes plugins_searchPeers
PeersInvoke ==
    /\ peers.pc = "START"
    /\ \E pluginName \in {<<"pl-dircopy">>}, version \in VersionArguments,
          stores \in StoreArguments :
          peers' = plugins_searchPeers(pluginName, version, stores)
    /\ UNCHANGED <<orchVars, readme, mkdir, feedCall, rcopy, copy, listing>>

\* the awaited plugin_searchPeerStore settles
PeersSearchSettles ==
    /\ peers.pc = "AWAIT_SEARCH"
    /\ \E r \in SearchResponses : peers' = PeersAfterSearch(peers, r)
    /\ UNCHANGED <<orchVars, readme, mkdir, feedCall, rcopy, copy, listing>>

NextPeers ==
    \/ PeersInvoke
    \/ PeersSearchSettles

SpecPeers == Init /\ [][NextPeers]_vars

\* a caller invokes files_listRecursive on the root of a tree
ListingInvoke ==
    /\ listing.pc = "START"
    /\ \E fs \in Trees : listing' = files_listRecursive(fs, ListRoot)
    /\ UNCHANGED <<orchVars, readme, mkdir, feedCall, rcopy, copy, peers>>

\* the awaited listing of the files of a directory settles
ListingFilesSettle ==
    /\ listing.pc = "RUNNING"
    /\ TopFrame(listing).pc = "AWAIT_FILES"
    /\ \E r \in TableResponsesOf(listing.fs, "files", TopFrame(listing).rootPath) :
          listing' = ListingAfterFiles(listing, r)
    /\ UNCHANGED <<orchVars, readme, mkdir, feedCall, rcopy, copy, peers>>

\* the awaited listing of the folders of a directory settles
ListingDirsSettle ==
    /\ listing.pc = "RUNNING"
    /\ TopFrame(listing).pc = "AWAIT_DIRS"
    /\ \E r \in TableResponsesOf(listing.fs, "dirs", TopFrame(listing).rootPath) :
          listing' = ListingAfterDirs(listing, r)
    /\ UNCHANGED <<orchVars, readme, mkdir, feedCall, rcopy, copy, peers>>

\* a call that is over hands its items to the call that awaits it
ListingSubReturns ==
    /\ listing.pc = "RUNNING"
    /\ TopFrame(listing).pc = "DONE"
    /\ listing' = ListingAfterSub(listing)
    /\ UNCHANGED <<orchVars, readme, mkdir, feedCall, rcopy, copy, peers>>

NextListing ==
    \/ ListingInvoke
    \/ ListingFilesSettle
    \/ ListingDirsSettle
    \/ ListingSubReturns

\* a listing that is awaited settles, and a call that is over returns
SpecListing ==
    /\ Init
    /\ [][NextListing]_vars
    /\ WF_vars(ListingFilesSettle)
    /\ WF_vars(ListingDirsSettle)
    /\ WF_vars(ListingSubReturns)

\* ------------------------------------------------------------------------
\* Properties
\* ------------------------------------------------------------------------

\* the requests invocation i has made, in order
CallsBy(i) ==
    LET mine == SelectSeq(calls, LAMBDA c : c.by = i)
    IN  [j \in 1..Len(mine) |-> mine[j].rec]

\* the requests of one kind invocation i has made
CallsOf(i, fn) == SelectSeq(CallsBy(i), LAMBDA c : c.fn = fn)

\* the messages invocation i has pushed on the error stack
MessagesBy(i) ==
    LET mine == SelectSeq(errorStack, LAMBDA m : m.by = i)
    IN  [j \in 1..Len(mine) |-> mine[j].rec]

Invoked(i) == pc[i] # "START"

\* invocation i was made on a cwd outside every feed
OnNewFeedPath(i) == Invoked(i) /\ ~path_isInFeed(args[i].cwd)

\* invocation i was made on a cwd inside a feed
OnContinueFeedPath(i) == Invoked(i) /\ path_isInFeed(args[i].cwd)

\* C1: outside a feed, when the listing holds no directory-copy plugin (the
\* empty listing included), the call has returned null, has pushed exactly
\* the 'pl-dircopy not found' message and has made no remote request.
C1_NoDircopyNoRemoteCall ==
    \A i \in Procs :
        (OnNewFeedPath(i) /\ path_findLatestDircopy(args[i].binListing) = Null)
        => /\ pc[i] = "FAIL"
           /\ result[i] = NullResult
           /\ MessagesBy(i) = <<MsgNoDircopy>>
           /\ CallsBy(i) = <<>>
           /\ \A q \in pending : q.by # i

\* an invocation outside a feed with an empty listing has returned
C1_Witness ==
    /\ OnNewFeedPath(1)
    /\ args[1].binListing = <<>>
    /\ result[1] = NullResult

\* C2: on the new-feed path, when feed_create yielded a record and plugin_run
\* yielded null, the call has returned null; createFromDirs was requested
\* exactly once, plugin_run exactly once, and nothing else was requested (no
\* retry, no deletion of the feed).
C2_RunFailureNoRetryNoRollback ==
    \A i \in Procs :
        (OnNewFeedPath(i) /\ feedResult[i].kind = "record" /\ pluginResult[i].kind = "null")
        => /\ pc[i] = "FAIL"
           /\ result[i] = NullResult
           /\ Len(CallsOf(i, "createFromDirs")) = 1
           /\ Len(CallsOf(i, "plugin_run")) = 1
           /\ Len(CallsBy(i)) = 2
           /\ \A q \in pending : q.by # i

\* the feed was created with ids 10 and 11 and the run then failed
C2_Witness ==
    /\ OnNewFeedPath(1)
    /\ feedResult[1].kind = "record"
    /\ feedResult[1].id = Num(10)
    /\ feedResult[1].instId = Num(11)
    /\ pluginResult[1].kind = "null"
    /\ pc[1] = "FAIL"

Terminal(i) == pc[i] \in {"SUCCESS", "FAIL", "THROWN"}

\* C3: no exception reaches the caller: the promise of an invocation is
\* never rejected, and an invocation that has ended has handed back either a
\* result or null together with a message of its own on the error stack.
C3_NoExceptionEscapes ==
    \A i \in Procs :
        /\ result[i].kind # "rejected"
        /\ Terminal(i) =>
              \/ result[i].kind = "result"
              \/ result[i] = NullResult /\ MessagesBy(i) # <<>>

\* the create-feed response lacks the feed id, the plugin instance, its data
\* or its id
MalformedFeedResponse(r) ==
    \/ r.kind = "null"
    \/ /\ r.kind = "record"
       /\ \/ r.id = Undef
          \/ r.pluginInstance # "present"
          \/ r.instId = Undef

\* C4: on the new-feed path, once feed_create has yielded null or a record
\* with a missing id field, the call has returned null with the
\* feed-creation message and plugin_run has not been requested.
C4_MalformedFeedResponseFails ==
    \A i \in Procs :
        (OnNewFeedPath(i) /\ MalformedFeedResponse(feedResult[i]))
        => /\ pc[i] = "FAIL"
           /\ result[i] = NullResult
           /\ MessagesBy(i) = <<MsgFeedFailed>>
           /\ CallsOf(i, "plugin_run") = <<>>

\* C5: on the new-feed path plugin_run is requested only after feed_create
\* has yielded a record, the two requests are never pending together, and
\* the previous_id of the run is the plugin instance id of that record.
C5_RunAfterCreateWithBootstrapId ==
    \A i \in Procs :
        OnNewFeedPath(i) =>
            /\ ~({[by |-> i, fn |-> "createFromDirs"], [by |-> i, fn |-> "plugin_run"]}
                    \subseteq pending)
            /\ [by |-> i, fn |-> "createFromDirs"] \in pending
                  => CallsOf(i, "plugin_run") = <<>>
            /\ \A j \in 1..Len(CallsBy(i)) :
                  CallsBy(i)[j].fn = "plugin_run"
                  => /\ feedResult[i].kind = "record"
                     /\ j = 2
                     /\ CallsBy(i)[1].fn = "createFromDirs"
                     /\ DictHas(CallsBy(i)[j].params, "previous_id")
                     /\ DictGet(CallsBy(i)[j].params, "previous_id") = feedResult[i].instId

\* the run is pending, chained onto instance 10 of feed 9
C5_Witness ==
    /\ OnNewFeedPath(1)
    /\ pc[1] = "AWAIT_RUN"
    /\ feedResult[1].id = Num(9)
    /\ feedResult[1].instId = Num(10)
    /\ pending = {[by |-> 1, fn |-> "plugin_run"]}

\* C6: inside a feed, when no plugin instance id can be extracted, or when
\* no feed id can, the call has returned null with the corresponding message
\* and has made no remote request; the instance id is tested first, so with
\* both missing the message is the one about the instance id.
C6_ExtractionFailures ==
    \A i \in Procs :
        OnContinueFeedPath(i) =>
            /\ helpers[i].previousID = Null
                  => /\ pc[i] = "FAIL"
                     /\ result[i] = NullResult
                     /\ MessagesBy(i) = <<MsgNoInstanceID>>
                     /\ CallsBy(i) = <<>>
            /\ (helpers[i].previousID # Null /\ helpers[i].feedID = Null)
                  => /\ pc[i] = "FAIL"
                     /\ result[i] = NullResult
                     /\ MessagesBy(i) = <<MsgNoFeedID>>
                     /\ CallsBy(i) = <<>>

\* neither id could be extracted and the call has returned
C6_Witness ==
    /\ OnContinueFeedPath(1)
    /\ helpers[1].previousID = Null
    /\ helpers[1].feedID = Null
    /\ pc[1] = "FAIL"

\* C7: inside a feed with both ids extractable, the requests of the call are
\* exactly one plugin_run whose previous_id is the extracted instance id;
\* createFromDirs is never requested, the listing plays no part (no
\* 'pl-dircopy not found' message, whatever the listing holds), and the call
\* fails only when the run yields null.
C7_ContinueFeedRunsOnce ==
    \A i \in Procs :
        (OnContinueFeedPath(i) /\ helpers[i].previousID # Null /\ helpers[i].feedID # Null)
        => /\ Len(CallsBy(i)) = 1
           /\ CallsBy(i)[1].fn = "plugin_run"
           /\ DictGet(CallsBy(i)[1].params, "previous_id") = helpers[i].previousID
           /\ CallsOf(i, "createFromDirs") = <<>>
           /\ pc[i] = "FAIL" => (pluginResult[i].kind = "null" /\ MessagesBy(i) = <<MsgRunFailed>>)
           /\ pluginResult[i].kind = "record" => pc[i] = "SUCCESS"

\* a call inside a feed succeeded although the listing was empty
C7_Witness ==
    /\ OnContinueFeedPath(1)
    /\ args[1].binListing = <<>>
    /\ helpers[1].previousID = Num(10)
    /\ pc[1] = "SUCCESS"
    /\ Len(CallsBy(1)) = 1

\* the id the orchestrator chains the run onto
DerivedPreviousID(i) ==
    IF path_isInFeed(args[i].cwd) THEN helpers[i].previousID ELSE feedResult[i].instId

\* C8: on both protocols the parameters of every plugin_run request are the
\* caller's pluginParams with previous_id set to the derived id, and with
\* title set to the instance title exactly when a non-empty one is given;
\* every other key of pluginParams is passed with its value, and without an
\* instance title no title key is added.
C8_RunParameters ==
    \A i \in Procs :
        \A j \in 1..Len(CallsOf(i, "plugin_run")) :
            LET sent == CallsOf(i, "plugin_run")[j].params
                given == args[i].pluginParams
                title == args[i].contextParams.instance_title
                supplied == title.tag = "string" /\ title.str # <<>>
                added == IF supplied THEN {"previous_id", "title"} ELSE {"previous_id"}
            IN  /\ DictKeys(sent) = DictKeys(given) \cup added
                /\ Len(sent) = Cardinality(DictKeys(sent))
                /\ DictGet(sent, "previous_id") = DerivedPreviousID(i)
                /\ supplied => DictGet(sent, "title") = title
                /\ \A key \in DictKeys(given) \ added :
                      DictGet(sent, key) = DictGet(given, key)

\* a run was requested with an instance title over a caller-supplied title
C8_Witness ==
    /\ OnNewFeedPath(1)
    /\ args[1].contextParams.instance_title = Str(<<"Segment">>)
    /\ DictHas(args[1].pluginParams, "title")
    /\ DictHas(args[1].pluginParams, "threshold")
    /\ Len(CallsOf(1, "plugin_run")) = 1

\* /home/<user>/feeds/feed_<feed>/<name>_<inst>/<resolved>_<new>/data/, each
\* part given as text
PathUnderInstance(user, feed, name, inst, resolved, new) ==
    <<"/", "home", "/">> \o user \o <<"/", "feeds", "/", "feed", "_">> \o feed
        \o <<"/">> \o name \o <<"_">> \o inst
        \o <<"/">> \o resolved \o <<"_">> \o new \o <<"/", "data", "/">>

\* how a response field appears in a path: a number in decimal, a missing
\* field as the text undefined
Shown(v) ==
    IF v.tag = "number" THEN Digits(v.num)
    ELSE IF v.tag = "string" THEN v.str
    ELSE <<"undefined">>

\* the segment of index 2 of cwd as it appears in a path
ShownUser(cwd) ==
    IF Len(Split(cwd)) >= 3 THEN Split(cwd)[3] ELSE <<"undefined">>

NewFeedSuccess(i) == OnNewFeedPath(i) /\ pc[i] = "SUCCESS"

C10_PathUnderPreviousInstance ==
    \A i \in Procs :
        \A F \in Ids, P \in Ids :
            (/\ OnContinueFeedPath(i)
             /\ pc[i] = "SUCCESS"
             /\ args[i].cwd = InstanceCwd(F, Digits(P))
             /\ helpers[i].previousID = Num(P)
             /\ helpers[i].feedID = Num(F))
            => result[i].outputPath =
                   PathUnderInstance(<<"alice">>, Digits(F), <<"pl-dircopy">>, Digits(P),
                       Shown(pluginResult[i].plugin_name), Shown(pluginResult[i].id))

\* the segments of cwd (numbered from 1) that end in _<id>
SegmentsEndingIn(cwd, id) ==
    {j \in 1..Len(Split(cwd)) :
        LET seg == Split(cwd)[j]
            tail == <<"_">> \o Shown(id)
        IN  /\ Len(seg) >= Len(tail)
            /\ \A n \in 1..Len(tail) : seg[Len(seg) - Len(tail) + n] = tail[n]}

\* the text in front of the n-th slash of cwd
BeforeSlash(cwd, n) ==
    LET slashes == {p \in 1..Len(cwd) : cwd[p] = "/"}
        upTo == {p \in slashes : Cardinality({q \in slashes : q <= p}) = n}
    IN  IF upTo = {} THEN cwd ELSE SubSeq(cwd, 1, (CHOOSE p \in upTo : TRUE) - 1)

ContinueFeedSuccess(i) == OnContinueFeedPath(i) /\ pc[i] = "SUCCESS"

C11_FallbackTaken ==
    /\ ContinueFeedSuccess(1)
    /\ SegmentsEndingIn(args[1].cwd, helpers[1].previousID) = {}

\* the number of slash-delimited segments of a text
SegmentCount(text) == Cardinality({p \in 1..Len(text) : text[p] = "/"}) + 1

\* C12: once the run call has yielded a record, the invocation has returned
\* a result whose outputPath is a text ending in /data/, whatever cwd is: no
\* error is raised for a cwd with fewer than three segments nor for one in
\* which no segment matches the previous instance id.
C12_OutputPathNeverThrows ==
    \A i \in Procs :
        pluginResult[i].kind = "record" =>
            /\ pc[i] = "SUCCESS"
            /\ result[i].kind = "result"
            /\ Len(result[i].outputPath) >= 3
            /\ SubSeq(result[i].outputPath, Len(result[i].outputPath) - 2,
                      Len(result[i].outputPath)) = <<"/", "data", "/">>

\* a run succeeded from a cwd with fewer than three segments, none of which
\* ends in _<previousInstanceId>
C12_Witness ==
    /\ pluginResult[1].kind = "record"
    /\ OnContinueFeedPath(1)
    /\ SegmentCount(args[1].cwd) < 3
    /\ SegmentsEndingIn(args[1].cwd, helpers[1].previousID) = {}

\* a run succeeded on the new-feed path from a cwd with fewer than three
\* segments
C12_ShortFreshCwd ==
    /\ pluginResult[1].kind = "record"
    /\ OnNewFeedPath(1)
    /\ SegmentCount(args[1].cwd) < 3

\* C13: every result handed back carries as pluginInstanceID and pluginName
\* the id and the plugin name of the run response (not the search string);
\* it has the keys feedID and dircopyInstanceID exactly when the invocation
\* took the new-feed path, and then their values are the id and the
\* pluginInstance.data.id of the create-feed response.
C13_ResultFields ==
    \A i \in Procs :
        result[i].kind = "result" =>
            /\ result[i].pluginInstanceID = pluginResult[i].id
            /\ result[i].pluginName = pluginResult[i].plugin_name
            /\ result[i].hasFeedKeys <=> OnNewFeedPath(i)
            /\ OnNewFeedPath(i) =>
                  /\ result[i].feedID = feedResult[i].id
                  /\ result[i].dircopyInstanceID = feedResult[i].instId
            /\ OnContinueFeedPath(i) =>
                  /\ result[i].feedID = NoResult.feedID
                  /\ result[i].dircopyInstanceID = NoResult.dircopyInstanceID

\* an in-feed result, which has neither feed key, though the invocation knew
\* a feed id
C13_Witness ==
    /\ result[1].kind = "result"
    /\ OnContinueFeedPath(1)
    /\ loc[1].feedID \in {Num(n) : n \in Ids}
    /\ ~result[1].hasFeedKeys
    /\ result[1].pluginName = Str(<<"pl-foo">>)
    /\ result[1].pluginName # Str(args[1].pluginName)

\* a new-feed result with both ids of the create-feed response
C13_FreshResult ==
    /\ result[1].kind = "result"
    /\ OnNewFeedPath(1)
    /\ result[1].feedID = Num(10)
    /\ result[1].dircopyInstanceID = Num(11)

\* the step a message names has failed in invocation i
StepFailed(i, msg) ==
    CASE msg = MsgNoDircopy ->
            /\ OnNewFeedPath(i)
            /\ \A j \in 1..Len(args[i].binListing) :
                  ~IsDircopyEntry(args[i].binListing[j])
      [] msg = MsgFeedFailed -> OnNewFeedPath(i) /\ feedResult[i].kind = "null"
      [] msg = MsgRunFailed -> pluginResult[i].kind = "null"
      [] msg = MsgNoInstanceID ->
            OnContinueFeedPath(i) /\ helpers[i].previousID = Null
      [] msg = MsgNoFeedID -> OnContinueFeedPath(i) /\ helpers[i].feedID = Null
      [] OTHER -> FALSE

\* C14: an invocation has returned null exactly when it has pushed an error
\* message, which is then its only one and names the step that failed; a
\* successful invocation has pushed none; and whatever is returned is null or
\* a complete result built from a run response, never the feed ids alone.
C14_NullIffMessage ==
    \A i \in Procs :
        /\ result[i] = NullResult <=> MessagesBy(i) # <<>>
        /\ result[i].kind = "null" => result[i] = NullResult
        /\ MessagesBy(i) # <<>> =>
              /\ Len(MessagesBy(i)) = 1
              /\ StepFailed(i, MessagesBy(i)[1])
        /\ pc[i] = "SUCCESS" => MessagesBy(i) = <<>>
        /\ result[i].kind = "result" =>
              /\ pc[i] = "SUCCESS"
              /\ pluginResult[i].kind = "record"
              /\ result[i].pluginInstanceID = pluginResult[i].id
              /\ Len(result[i].outputPath) > 0
        /\ (feedResult[i].kind = "record" /\ pluginResult[i].kind = "null")
              => result[i] = NullResult

\* the feed was created, the run failed: null and the run message, no feed ids
C14_Witness ==
    /\ feedResult[1].kind = "record"
    /\ feedResult[1].id = Num(10)
    /\ pluginResult[1].kind = "null"
    /\ result[1] = NullResult
    /\ MessagesBy(1) = <<MsgRunFailed>>

\* a step of invocation i has failed: it has returned null, an exception has
\* left it, or one of its requests has yielded null or a rejection
HasFailed(i) ==
    \/ pc[i] \in {"FAIL", "THROWN"}
    \/ feedResult[i].kind \in {"null", "throw"}
    \/ pluginResult[i].kind \in {"null", "throw"}

\* C15: in every step, each invocation has requested createFromDirs at most
\* once and plugin_run at most once, whatever the requests yielded, and an
\* invocation that has failed makes no further request.
C15_NoRetry ==
    [][\A i \in Procs :
          /\ Len(CallsOf(i, "createFromDirs"))' <= 1
          /\ Len(CallsOf(i, "plugin_run"))' <= 1
          /\ HasFailed(i) => CallsBy(i)' = CallsBy(i)
          /\ HasFailed(i)' /\ ~HasFailed(i) => CallsBy(i)' = CallsBy(i)]_vars

\* both requests were made once and the run failed
C15_Witness ==
    /\ Len(CallsOf(1, "createFromDirs")) = 1
    /\ Len(CallsOf(1, "plugin_run")) = 1
    /\ pluginResult[1].kind = "null"
    /\ pc[1] = "FAIL"

\* some step of invocation i can be taken when every remote call returns
CanStep(i) == ENABLED (FeedCreateReturns(i) \/ PluginRunReturns(i))

\* C16: when every remote call returns, an invocation that was started stops
\* only in SUCCESS (with a result) or in FAIL (with null): as long as it is
\* in neither, one of its steps can be taken, and once it is in one of them
\* it stays.
C16_EndsInSuccessOrFail ==
    \A i \in Procs :
        /\ Invoked(i) =>
              \/ CanStep(i)
              \/ pc[i] = "SUCCESS" /\ result[i].kind = "result"
              \/ pc[i] = "FAIL" /\ result[i] = NullResult
        /\ pc[i] \in {"SUCCESS", "FAIL"} => ~CanStep(i)

\* C16 as a progress property: a started invocation leads to SUCCESS or FAIL
C16_EventuallySuccessOrFail ==
    \A i \in Procs : Invoked(i) ~> (pc[i] \in {"SUCCESS", "FAIL"})

\* one step after another: the messages and requests of both, the position,
\* locals and result of the second
Then(e, f) ==
    [pc |-> f.pc, loc |-> f.loc, msgs |-> e.msgs \o f.msgs,
     calls |-> e.calls \o f.calls, result |-> f.result]

\* what an invocation that runs alone does with arguments a, helper answers
\* h and the responses fr and pr (kind none: not settled yet)
SoloRun(a, h, fr, pr) ==
    LET begun == plugin_executeInPlace(a, h.previousID, h.feedID)
        created == IF begun.pc = "AWAIT_FEED" /\ fr.kind # "none"
                   THEN Then(begun, NewFeedAfterCreate(a, begun.loc, fr))
                   ELSE begun
    IN  IF created.pc = "AWAIT_RUN" /\ pr.kind # "none"
        THEN Then(created, AfterRun(a, created.loc, pr))
        ELSE created

\* C17: with two invocations interleaved at their awaits in every order, the
\* position, the result, the remote requests with their parameters and the
\* messages of each invocation are those of an invocation running alone with
\* the same arguments and the same responses to its own requests; an
\* invocation that has not started has made no request.
C17_Isolation ==
    \A i \in Procs :
        IF Invoked(i)
        THEN LET alone == SoloRun(args[i], helpers[i], feedResult[i], pluginResult[i])
             IN  /\ pc[i] = alone.pc
                 /\ result[i] = alone.result
                 /\ CallsBy(i) = alone.calls
                 /\ MessagesBy(i) = alone.msgs
        ELSE /\ result[i] = NoResult
             /\ CallsBy(i) = <<>>
             /\ MessagesBy(i) = <<>>

\* invocation 2 started and ran inside a feed while invocation 1 was waiting
\* for its feed; both succeeded
C17_Witness ==
    /\ pc[1] = "SUCCESS"
    /\ pc[2] = "SUCCESS"
    /\ OnNewFeedPath(1)
    /\ OnContinueFeedPath(2)
    /\ Len(calls) = 3
    /\ calls[1].by = 1
    /\ calls[2].by = 2
    /\ calls[3].by = 1

\* the last segment of a path, read off its characters: what stands between
\* the last slash that is followed by something and the trailing slashes
LastSegment(p) ==
    LET filled == {n \in 1..Len(p) : p[n] # "/"}
        end == IF filled = {} THEN 0 ELSE CHOOSE n \in filled : \A m \in filled : m <= n
        before == {n \in 1..end : p[n] = "/"}
        start == IF before = {} THEN 0 ELSE CHOOSE n \in before : \A m \in before : m <= n
    IN  SubSeq(p, start + 1, end)

\* C18: on the new-feed path with a directory-copy plugin listed, feed_create
\* is requested once, with the one directory cwd (which is also the joined
\* text handed to createFromDirs) and the single parameter params equal to
\* title:<feedTitle>, where feedTitle is the caller's feed title when a
\* non-empty one is given and the last segment of cwd otherwise.
C18_CreateFeedRequest ==
    \A i \in Procs :
        (OnNewFeedPath(i) /\ path_findLatestDircopy(args[i].binListing) # Null) =>
            LET given == args[i].contextParams.feed_title
                feedTitle == IF given.tag = "string" /\ given.str # <<>>
                             THEN given.str
                             ELSE LastSegment(args[i].cwd)
                made == CallsOf(i, "createFromDirs")
            IN  /\ Len(made) = 1
                /\ made[1].dirs = <<args[i].cwd>>
                /\ made[1].dirsArg = args[i].cwd
                /\ DictKeys(made[1].params) = {"params"}
                /\ Len(made[1].params) = 1
                /\ DictGet(made[1].params, "params") = Str(<<"title:">> \o feedTitle)

\* a feed requested under the caller's title, not the name of the directory
C18_Witness ==
    /\ OnNewFeedPath(1)
    /\ args[1].cwd = FreshCwd
    /\ args[1].contextParams.feed_title = Str(<<"Brain">>)
    /\ Len(CallsOf(1, "createFromDirs")) = 1
    /\ DictGet(CallsOf(1, "createFromDirs")[1].params, "params")
          = Str(<<"title:", "Brain">>)

\* a feed titled after the last segment of a cwd written with a trailing slash
C18_TitledAfterDirectory ==
    /\ OnNewFeedPath(1)
    /\ args[1].cwd = TrailingSlashCwd
    /\ args[1].contextParams.feed_title = Str(<<>>)
    /\ Len(CallsOf(1, "createFromDirs")) = 1
    /\ DictGet(CallsOf(1, "createFromDirs")[1].params, "params")
          = Str(<<"title:", "uploads">>)

\* text sub occurs in text
Occurs(sub, text) ==
    \E k \in 0..(Len(text) - Len(sub)) : SubSeq(text, k + 1, k + Len(sub)) = sub

\* every text a request carries
TextsOf(call) ==
    {call.dirsArg, call.searchable, call.wire}
        \cup {call.dirs[j] : j \in 1..Len(call.dirs)}
        \cup {call.params[j].v.str : j \in 1..Len(call.params)}

\* the directory-copy entries of a listing
DircopyEntries(binListing) ==
    {binListing[j] : j \in {n \in 1..Len(binListing) : IsDircopyEntry(binListing[n])}}

\* the listing of invocation i holds several versions of the directory-copy
\* plugin, and e is the one with the highest version
LatestOfSeveral(i, e) ==
    /\ Cardinality(DircopyEntries(args[i].binListing)) >= 2
    /\ e \in DircopyEntries(args[i].binListing)
    /\ \A other \in DircopyEntries(args[i].binListing) \ {e} :
          VersionLess(VersionOf(other), VersionOf(e))

\* the bootstrap of invocation i has selected entry e
Selected(i, e) == loc[i].dircopyPlugin = Str(e)

\* entry e appears in a request or in the result of invocation i
Used(i, e) ==
    \/ \E j \in 1..Len(CallsBy(i)) : \E text \in TextsOf(CallsBy(i)[j]) : Occurs(e, text)
    \/ Occurs(e, result[i].outputPath)

\* C19: when the listing holds several versions of the directory-copy
\* plugin, the bootstrap that requests the feed has selected the entry with
\* the highest version and uses it: the entry is named in what the
\* invocation sends or returns.
C19_UsesLatestDircopy ==
    \A i \in Procs :
        \A e \in DircopyEntries(args[i].binListing) :
            (/\ OnNewFeedPath(i)
             /\ LatestOfSeveral(i, e)
             /\ Len(CallsOf(i, "createFromDirs")) = 1)
            => Selected(i, e) /\ Used(i, e)

\* the part of C19 that holds: the entry with the highest version is the one
\* selected
C19_SelectsLatestDircopy ==
    \A i \in Procs :
        \A e \in DircopyEntries(args[i].binListing) :
            (OnNewFeedPath(i) /\ LatestOfSeveral(i, e)) => Selected(i, e)

\* what the code does with the selection: no request and no result ever
\* names a listed directory-copy entry
C19_SelectionNeverUsed ==
    \A i \in Procs :
        \A e \in DircopyEntries(args[i].binListing) : ~Used(i, e)

\* a dictionary written as command-line text: --<key> <value> for each entry
\* in order, separated by one space
RECURSIVE CommandLineText(_)
CommandLineText(d) ==
    IF Len(d) = 0 THEN <<>>
    ELSE LET this == <<"--", d[1].k, " ">> \o Shown(d[1].v)
             rest == CommandLineText(Tail(d))
         IN  IF rest = <<>> THEN this ELSE this \o <<" ">> \o rest

\* C20: every request plugin_run hands to ChRISPlugin.plugin_run carries the
\* searchable string it was given, unchanged, and the parameters dictionary
\* written as command-line text, --<key> <value> for each entry.
C20_RunParametersAsCommandLine ==
    \A i \in Procs :
        \A j \in 1..Len(CallsOf(i, "plugin_run")) :
            LET sent == CallsOf(i, "plugin_run")[j]
            IN  /\ sent.searchable = args[i].pluginName
                /\ sent.wire = CommandLineText(sent.params)

\* the part of C20 that holds: the searchable string is handed on unchanged,
\* and the parameters travel as the JSON text of the dictionary
C20_RunParametersAsJson ==
    \A i \in Procs :
        \A j \in 1..Len(CallsOf(i, "plugin_run")) :
            LET sent == CallsOf(i, "plugin_run")[j]
            IN  /\ sent.searchable = args[i].pluginName
                /\ Len(sent.wire) >= 2
                /\ sent.wire[1] = "{"
                /\ sent.wire[Len(sent.wire)] = "}"
                /\ \A key \in DictKeys(sent.params) :
                      DictGet(sent.params, key) # Undef
                          => Occurs(<<"\"", key, "\"", ":">>, sent.wire)

\* the j-th place pluginMeta_readmeContentFetch looks at
ReadmePlace(repoUrl, j) ==
    repoUrl \o <<"/", "raw", "/">>
        \o (IF j <= 2 THEN <<"master">> ELSE <<"main">>)
        \o <<"/", "README", ".">>
        \o (IF j \in {1, 3} THEN <<"md">> ELSE <<"rst">>)

\* a request that threw or did not answer with status 200
ReadmeMiss(response) == response.kind = "throw" \/ response.status # 200

\* C21: the URLs are requested in the order master/README.md,
\* master/README.rst, main/README.md, main/README.rst, one at a time; each
\* request but the last made followed a miss (a throw or a status other
\* than 200); the body of the first 200 response is returned and nothing is
\* requested after it; null is returned exactly after four misses.
C21_ReadmeSearchOrder ==
    LET asked == Len(readme.requested)
        seen == Len(readme.responses)
    IN  /\ asked <= 4
        /\ \A j \in 1..asked : readme.requested[j] = ReadmePlace(readme.repoUrl, j)
        /\ \A j \in 1..(seen - 1) : ReadmeMiss(readme.responses[j])
        /\ readme.pc = "AWAIT_GET" =>
              /\ asked = seen + 1
              /\ \A j \in 1..seen : ReadmeMiss(readme.responses[j])
        /\ readme.pc = "RETURNED" =>
              /\ asked = seen
              /\ IF ReadmeMiss(readme.responses[seen])
                 THEN readme.result = Null /\ seen = 4
                 ELSE readme.result = Str(readme.responses[seen].data)

\* the first two requests threw and main/README.md answered 200: its body is
\* returned and main/README.rst was not requested
C21_Witness ==
    /\ readme.pc = "RETURNED"
    /\ Len(readme.requested) = 3
    /\ readme.responses[1].kind = "throw"
    /\ readme.responses[2].kind = "throw"
    /\ readme.result = Str(<<"README from main">>)

\* the entries of one type on the stack of the files_mkdir call
MkdirPushed(type) == SelectSeq(mkdir.stack, LAMBDA e : e.type = type)

\* the creation request was rejected with status 400 and a path message
\* saying the folder already exists
MkdirFolderExists ==
    /\ mkdir.requests = <<"client_get", "getFileBrowserFolders", "post">>
    /\ mkdir.thrown.kind = "error"
    /\ mkdir.thrown.hasResponse
    /\ mkdir.thrown.status = 400
    /\ mkdir.thrown.hasPath
    /\ \E k \in 1..Len(mkdir.thrown.path0) : mkdir.thrown.path0[k] = "already exists"

C22_NotConnected ==
    /\ mkdir.pc = "RETURNED"
    /\ mkdir.response = "noclient"
    /\ mkdir.result = "false"

\* the directories written one after the other with a comma between two
RECURSIVE CommaList(_)
CommaList(dirs) ==
    IF Len(dirs) = 0 THEN <<>>
    ELSE IF Len(dirs) = 1 THEN dirs[1]
    ELSE CommaList(SubSeq(dirs, 1, Len(dirs) - 1)) \o <<",">> \o dirs[Len(dirs)]

\* C23: a call of feed_create makes exactly one createFromDirs request, with
\* the directories joined by commas into one text (a single directory as
\* itself) and the params object it was given (the empty object when it was
\* left out); it returns the record the backend yielded, and null when the
\* backend yielded null.
C23_FeedCreatePassesThrough ==
    feedCall.pc # "START" =>
        /\ Len(feedCall.requests) = 1
        /\ feedCall.requests[1].fn = "createFromDirs"
        /\ feedCall.requests[1].dirsArg = CommaList(feedCall.dirs)
        /\ Len(feedCall.dirs) = 1 => feedCall.requests[1].dirsArg = feedCall.dirs[1]
        /\ feedCall.requests[1].params =
              (IF feedCall.params.given THEN feedCall.params.value ELSE <<>>)
        /\ feedCall.pc = "DONE" =>
              /\ feedCall.response.kind \in {"record", "null"}
                    <=> feedCall.outcome = "returned"
              /\ feedCall.outcome = "returned" => feedCall.value = feedCall.response

\* the call of the repository's second test: two directories, no params
C23_Witness ==
    /\ feedCall.pc = "DONE"
    /\ feedCall.dirs = <<<<"/", "a">>, <<"/", "b">>>>
    /\ ~feedCall.params.given
    /\ feedCall.requests[1].dirsArg = <<"/", "a", ",", "/", "b">>
    /\ feedCall.requests[1].params = <<>>
    /\ feedCall.response.kind = "null"
    /\ feedCall.outcome = "returned"

\* the part of C24 about the items: every item of the listing is attempted
\* once, in listing order, with files_mkdir for a directory and files_copy
\* for a file, whatever the earlier items returned; the call ends by
\* returning true or false, false when the listing raised.
C24_ItemsAttemptedOnce ==
    /\ rcopy.pc \in {"START", "AWAIT_ROOT", "AWAIT_LIST", "AWAIT_ITEM", "RETURNED"}
    /\ rcopy.pc = "AWAIT_ITEM" =>
          Len(rcopy.attempts) = Len(rcopy.outcomes) + 1
    /\ \A n \in 1..Len(rcopy.attempts) :
          /\ rcopy.attempts[n].op =
                (IF rcopy.items[n].type = "dir" THEN "files_mkdir" ELSE "files_copy")
          /\ rcopy.attempts[n].src[1] = "/"
          /\ rcopy.attempts[n].src \in {rcopy.items[n].path, <<"/">> \o rcopy.items[n].path}
    /\ rcopy.pc = "RETURNED" =>
          /\ rcopy.result \in {"true", "false"}
          /\ rcopy.raised => rcopy.result = "false" /\ Len(rcopy.stack) = 1
          /\ ~rcopy.raised => Len(rcopy.attempts) = Len(rcopy.items)
          /\ Len(rcopy.outcomes) = Len(rcopy.attempts)

\* C24: files_copyRecursively attempts every item once in listing order and
\* never throws, and it returns true exactly when the whole copy succeeded:
\* the destination root was created and no item failed.
C24_TrueIffWholeCopySucceeded ==
    /\ C24_ItemsAttemptedOnce
    /\ rcopy.pc = "RETURNED" =>
          (rcopy.result = "true" <=>
              /\ ~rcopy.raised
              /\ rcopy.rootCreated = "true"
              /\ \A n \in 1..Len(rcopy.outcomes) : rcopy.outcomes[n])

\* what the code returns: true exactly when nothing raised and no item
\* failed, whether or not the destination root was created
C24_TrueIffNoItemFailed ==
    rcopy.pc = "RETURNED" =>
        (rcopy.result = "true" <=>
            /\ ~rcopy.raised
            /\ \A n \in 1..Len(rcopy.outcomes) : rcopy.outcomes[n])

\* the names of the steps files_copy has taken, in order
CopyStepNames == [n \in 1..Len(copy.steps) |-> copy.steps[n].op]

\* the source file is in the listing, under its full path or its last segment
CopySourceListed ==
    \E n \in 1..Len(copy.tableData) :
        \/ copy.tableData[n].fname = copy.srcPath
        \/ LastSegment(copy.tableData[n].fname) = LastSegment(copy.srcPath)

\* the part of C25 about the order: the steps are taken in the order resolve
\* (group, listing), download, upload; the download only with the id of a
\* listed source file, the upload only after the download returned content;
\* true is returned exactly when the upload succeeded.
C25_StepOrder ==
    /\ \E n \in 0..4 :
          CopyStepNames =
              SubSeq(<<"files_getGroup", "resources_getAll", "file_download", "files_create">>,
                     1, n)
    /\ Len(copy.steps) >= 3 =>
          /\ CopySourceListed
          /\ \E n \in 1..Len(copy.tableData) :
                copy.steps[3].arg = Digits(copy.tableData[n].id)
    /\ Len(copy.steps) >= 4 => copy.downloaded /\ copy.steps[4].arg = copy.destPath
    /\ copy.pc = "RETURNED" =>
          /\ copy.result \in {"true", "false"}
          /\ copy.result = "true" <=> copy.uploaded = "true"

\* C25: files_copy takes its steps in the order resolve, download, upload,
\* returns true exactly when the upload succeeded, and whenever it returns
\* false an error message for the failure is on the error stack.
C25_FailureLeavesError ==
    /\ C25_StepOrder
    /\ (copy.pc = "RETURNED" /\ copy.result = "false") => Len(copy.stack) >= 1

\* what the code does on every failure but that of the upload
C25_ErrorUnlessUploadFailed ==
    (copy.pc = "RETURNED" /\ copy.result = "false") =>
        IF copy.failure = "upload"
        THEN copy.stack = <<>> /\ Len(copy.printed) = 1
        ELSE Len(copy.stack) = 1

\* the host of a store URL
HostOf(url) == IF Len(url) >= 3 /\ url[2] = "://" THEN <<url[3]>> ELSE url

\* C26: plugins_searchPeers queries the stores one at a time in the order
\* given, each with the plugin name and version; a store is queried only when
\* every store before it returned no match; a match is returned with the
\* plugin and URL the store gave and the store name of the URL that was
\* queried; null is returned only when every store returned no match.
C26_SearchPeersInOrder ==
    /\ Len(peers.queried) <= Len(peers.urls)
    /\ \A n \in 1..Len(peers.queried) :
          /\ peers.queried[n] = [pluginName |-> peers.pluginName,
                                 version |-> peers.version,
                                 peerStoreUrl |-> peers.urls[n]]
          /\ n > 1 => (Len(peers.answers) >= n - 1 /\ peers.answers[n - 1].kind = "null")
    /\ peers.pc = "AWAIT_SEARCH" => Len(peers.answers) = Len(peers.queried) - 1
    /\ (peers.pc = "RETURNED" /\ peers.outcome = "match") =>
          LET n == Len(peers.queried)
          IN  /\ n >= 1 /\ Len(peers.answers) = n
              /\ peers.answers[n].kind = "match"
              /\ peers.plugin = peers.answers[n].plugin
              /\ peers.storeUrl = peers.answers[n].storeUrl
              /\ peers.storeName = HostOf(peers.urls[n])
    /\ (peers.pc = "RETURNED" /\ peers.outcome = "null") =>
          /\ Len(peers.queried) = Len(peers.urls)
          /\ Len(peers.answers) = Len(peers.urls)
          /\ \A n \in 1..Len(peers.answers) : peers.answers[n].kind = "null"
    /\ peers.pc = "RETURNED" => peers.outcome \in {"match", "null"}

\* the second of two different stores answers, with a URL of another host
C26_Witness ==
    /\ peers.pc = "RETURNED" /\ peers.outcome = "match"
    /\ Len(peers.urls) = 2 /\ Len(peers.queried) = 2
    /\ peers.urls[1] # peers.urls[2]
    /\ peers.storeName = <<"localhost">>
    /\ HostOf(peers.storeUrl) # peers.storeName

\* every store was asked and none had the plugin
C26_NoStoreMatched ==
    /\ peers.pc = "RETURNED" /\ peers.outcome = "null"
    /\ Len(peers.queried) = 2

\* what the internal helper for this cwd does with arguments a, extractor
\* answers h and the responses fr and pr (kind none: not settled yet):
\* plugin_executeContinueFeed when cwd is in a feed, plugin_executeNewFeed
\* otherwise
HelperRun(a, h, fr, pr) ==
    IF path_isInFeed(a.cwd)
    THEN LET begun == plugin_executeContinueFeed(a, h.previousID, h.feedID)
         IN  IF begun.pc = "AWAIT_RUN" /\ pr.kind # "none"
             THEN Then(begun, ExecuteContinueFeedAfterRun(a, begun.loc, pr))
             ELSE begun
    ELSE LET begun == plugin_executeNewFeed(a)
             created == IF begun.pc = "AWAIT_FEED" /\ fr.kind # "none"
                        THEN Then(begun, ExecuteNewFeedAfterCreate(a, begun.loc, fr))
                        ELSE begun
         IN  IF created.pc = "AWAIT_RUN" /\ pr.kind # "none"
             THEN Then(created, ExecuteNewFeedAfterRun(a, created.loc, pr))
             ELSE created

\* C27: at every point of every invocation of plugin_executeInPlace, the
\* requests it has made with their parameters, the messages it has pushed,
\* its position and its result are those of the internal helper for its cwd
\* (plugin_executeContinueFeed inside a feed, plugin_executeNewFeed outside)
\* given the same arguments and the same responses.
C27_SameAsHelpers ==
    \A i \in Procs :
        Invoked(i) =>
            LET helper == HelperRun(args[i], helpers[i], feedResult[i], pluginResult[i])
            IN  /\ pc[i] = helper.pc
                /\ result[i] = helper.result
                /\ CallsBy(i) = helper.calls
                /\ MessagesBy(i) = helper.msgs

\* an invocation inside a feed, given a caller's title and an instance title,
\* has returned what plugin_executeContinueFeed returns
C27_Witness ==
    /\ pc[1] = "SUCCESS"
    /\ path_isInFeed(args[1].cwd)
    /\ Truthy(args[1].contextParams.instance_title)
    /\ args[1].pluginParams # EmptyDict
    /\ result[1].kind = "result"
    /\ result[1] = ExecuteContinueFeedAfterRun(args[1],
                       plugin_executeContinueFeed(args[1], helpers[1].previousID,
                                                  helpers[1].feedID).loc,
                       pluginResult[1]).result

\* an invocation outside a feed has failed as plugin_executeNewFeed fails
C27_NewFeedFailure ==
    /\ pc[1] = "FAIL"
    /\ ~path_isInFeed(args[1].cwd)
    /\ Len(CallsBy(1)) = 2
    /\ MessagesBy(1) = plugin_executeNewFeed(args[1]).msgs \o <<"Failed to run plugin">>

\* the entries of dictionary d under key
EntriesOf(d, key) == {n \in 1..Len(d) : d[n].k = key}

\* C28: when the caller's pluginParams carry a previous_id, the dictionary of
\* every run request has one previous_id entry, with the id the orchestrator
\* derived, and the caller's value does not travel; when they carry a title,
\* the request has one title entry: the instance title when one is given,
\* the caller's title when none is.
C28_CallerKeysOverridden ==
    \A i \in Procs :
        \A j \in 1..Len(CallsOf(i, "plugin_run")) :
            LET sent == CallsOf(i, "plugin_run")[j]
                given == args[i].pluginParams
                title == args[i].contextParams.instance_title
            IN  /\ DictHas(given, "previous_id") =>
                      /\ Cardinality(EntriesOf(sent.params, "previous_id")) = 1
                      /\ \A n \in EntriesOf(sent.params, "previous_id") :
                            sent.params[n].v = DerivedPreviousID(i)
                      /\ DictGet(given, "previous_id") # DerivedPreviousID(i) =>
                            \A end \in {",", "}"} :
                                ~Occurs(<<"\"", "previous_id", "\"", ":">>
                                            \o Shown(DictGet(given, "previous_id"))
                                            \o <<end>>,
                                        sent.wire)
                /\ DictHas(given, "title") =>
                      /\ Cardinality(EntriesOf(sent.params, "title")) = 1
                      /\ \A n \in EntriesOf(sent.params, "title") :
                            sent.params[n].v =
                                IF Truthy(title) THEN title ELSE DictGet(given, "title")

\* inside a feed, a caller's previous_id gave way to the id read from cwd and,
\* no instance title being given, the caller's title was sent
C28_Witness ==
    /\ OnContinueFeedPath(1)
    /\ Len(CallsOf(1, "plugin_run")) = 1
    /\ DictHas(args[1].pluginParams, "previous_id")
    /\ DictGet(args[1].pluginParams, "previous_id") # helpers[1].previousID
    /\ DictGet(CallsOf(1, "plugin_run")[1].params, "previous_id") = helpers[1].previousID
    /\ ~Truthy(args[1].contextParams.instance_title)
    /\ DictGet(CallsOf(1, "plugin_run")[1].params, "title") = Str(<<"mine">>)

\* outside a feed, a caller's previous_id and title gave way to the bootstrap
\* instance id and the instance title
C28_BothOverridden ==
    /\ OnNewFeedPath(1)
    /\ Len(CallsOf(1, "plugin_run")) = 1
    /\ DictGet(args[1].pluginParams, "previous_id") = Num(7)
    /\ feedResult[1].instId.tag = "number"
    /\ DictGet(CallsOf(1, "plugin_run")[1].params, "previous_id") = feedResult[1].instId
    /\ DictGet(CallsOf(1, "plugin_run")[1].params, "title") = Str(<<"Segment">>)

\* the invocations that have returned null
ReturnedNull == {i \in Procs : result[i] = NullResult}

\* C29: in every step of two interleaved invocations, one invocation moves
\* and the position, constants, arguments and result of the other stay as
\* they are; the error stack keeps every message it held, in place and
\* unchanged, and grows by one message, pushed by the moving invocation,
\* exactly when that invocation returns null; so the stack holds as many
\* messages as invocations have returned null, one of each.
C29_StackOnlyAppended ==
    [][/\ \E i \in Procs :
             /\ \A j \in Procs \ {i} :
                   /\ pc'[j] = pc[j] /\ loc'[j] = loc[j] /\ result'[j] = result[j]
                   /\ args'[j] = args[j] /\ helpers'[j] = helpers[j]
                   /\ feedResult'[j] = feedResult[j] /\ pluginResult'[j] = pluginResult[j]
             /\ Len(errorStack') = Len(errorStack) + 1 =>
                   /\ errorStack'[Len(errorStack')].by = i
                   /\ i \in ReturnedNull' \ ReturnedNull
             /\ i \in ReturnedNull' \ ReturnedNull => Len(errorStack') = Len(errorStack) + 1
       /\ Len(errorStack') \in {Len(errorStack), Len(errorStack) + 1}
       /\ SubSeq(errorStack', 1, Len(errorStack)) = errorStack
       /\ ReturnedNull \subseteq ReturnedNull'
       /\ Len(errorStack') = Cardinality(ReturnedNull')
       /\ \A i \in Procs :
             Len(SelectSeq(errorStack', LAMBDA m : m.by = i))
                 = IF i \in ReturnedNull' THEN 1 ELSE 0]_vars

\* invocation 1 made the first request, invocation 2 failed while it waited,
\* then invocation 1 failed: two messages, in the order of the failures
C29_Witness ==
    /\ ReturnedNull = {1, 2}
    /\ Len(calls) >= 1
    /\ calls[1].by = 1
    /\ Len(errorStack) = 2
    /\ errorStack[1].by = 2
    /\ errorStack[2].by = 1

\* one invocation was rejected and the other returned null: one message
C29_RejectedPushesNothing ==
    /\ result[1] = Rejected
    /\ result[2] = NullResult
    /\ Len(errorStack) = 1

\* entry e stands somewhere beneath directory dir
Beneath(e, dir) ==
    /\ Len(e) > Len(dir) + 1
    /\ SubSeq(e, 1, Len(dir) + 1) = dir \o <<"/">>

\* the places at which path occurs in the returned items
PlacesOf(path) == {n \in 1..Len(listing.result) : listing.result[n].path = path}

\* what files_listRecursive has returned: each entry of the tree at most
\* once, with its type, nothing else; every entry when every listing was
\* answered; the files of a directory before its folders; a folder before
\* every entry beneath it
ListedOnceInOrder ==
    LET items == listing.result
    IN  /\ \A n \in 1..Len(items) :
              /\ items[n].path \in listing.fs
              /\ items[n].type = IF items[n].path \in DirUniverse THEN "dir" ELSE "file"
        /\ \A e \in listing.fs : Cardinality(PlacesOf(e)) <= 1
        /\ listing.unanswered = {} =>
              \A e \in listing.fs : Cardinality(PlacesOf(e)) = 1
        /\ \A m, n \in 1..Len(items) :
              /\ (/\ items[m].type = "file"
                  /\ items[n].type = "dir"
                  /\ ParentOf(items[m].path) = ParentOf(items[n].path)) => m < n
              /\ (/\ items[m].type = "dir"
                  /\ Beneath(items[n].path, items[m].path)) => m < n

\* C30: on every finite tree, a call of files_listRecursive comes to an end,
\* and what it returns holds each file and folder beneath the root exactly
\* once when the listings were answered, the files of a directory before its
\* folders and each folder before everything beneath it.
C30_TerminatesListingOnce ==
    /\ [](listing.pc = "RETURNED" => ListedOnceInOrder)
    /\ [](listing.pc = "RUNNING" =>
             /\ Len(listing.stack) >= 1
             /\ Len(listing.stack) <= Cardinality(listing.fs \cap DirUniverse) + 1)
    /\ (listing.pc = "RUNNING") ~> (listing.pc \in {"RETURNED", "REJECTED"})

\* the whole of the deepest tree was returned
C30_Witness ==
    /\ listing.pc = "RETURNED"
    /\ listing.fs = DirUniverse \cup FileUniverse
    /\ listing.unanswered = {}
    /\ Len(listing.result) = Cardinality(listing.fs)
    /\ listing.result[1].type = "file"
    /\ listing.result[Len(listing.result)].type = "file"

====
